---- MODULE Spec2Model ----
(***************************************************************************)
(* The NaN-boxed value representation of the engine                        *)
(* (core/engine/src/value/inner/nan_boxed.rs and nan_boxed/raw.rs).        *)
(*                                                                         *)
(* A 64-bit word is a tuple <<w3, w2, w1, w0>> of four 16-bit words, w3    *)
(* the most significant: it holds the sign, the exponent, the quiet bit    *)
(* and the 3 tag bits, i.e. the Header of a Value on a little-endian       *)
(* target.  An f64 is its bit pattern.  A [u8; 6] is a tuple of 6 bytes,   *)
(* data[1] the byte at the lowest address.                                 *)
(***************************************************************************)
EXTENDS Integers, Sequences, FiniteSets, Bags, TLC

VARIABLES
    box,      \* RawSpec: the RawBox under test (a 64-bit word)
    made,     \* RawSpec: how `box` was built, and the last operation on it
    boxes,    \* Spec: the live NanBoxedValue instances (a bag of 64-bit words)
    handles,  \* Spec: the live handles outside any NanBoxedValue (a bag)
    heap,     \* Spec: per allocation, its kind, reference count and releases
    last,     \* Spec: the last operation, its operand and its result
    ub,       \* Spec: whether a released allocation has been dereferenced
    ops,      \* Spec: how many operations have been made
    num,      \* NaNSpec: the bits of the f64 under test
    nanop,    \* NaNSpec: the last operation on `num`, and how `num` is held
    str,      \* StrSpec: the slice or concat string under test
    parent    \* StrSpec: the string a slice is taken from

vars == <<box, made, boxes, handles, heap, last, ub, ops, num, nanop, str, parent>>

----------------------------------------------------------------------------
(* 16-bit and 64-bit bit operations                                         *)

\* The masks 2^k - 1, against which a & is a remainder
LowMasks == {0, 1, 3, 7, 15, 31, 63, 127, 255, 511, 1023, 2047, 4095, 8191,
             16383, 32767, 65535}

RECURSIVE BitAnd(_, _)
BitAnd(a, b) ==
    IF b \in LowMasks THEN a % (b + 1)
    ELSE IF a \in LowMasks THEN b % (a + 1)
    ELSE (a % 2) * (b % 2) + 2 * BitAnd(a \div 2, b \div 2)

RECURSIVE BitOr(_, _)
BitOr(a, b) ==
    IF a = 0 THEN b
    ELSE IF b = 0 THEN a
    ELSE (IF a % 2 = 1 \/ b % 2 = 1 THEN 1 ELSE 0) + 2 * BitOr(a \div 2, b \div 2)

And64(a, b) == [i \in 1..4 |-> BitAnd(a[i], b[i])]

ZeroData == <<0, 0, 0, 0, 0, 0>>

\* raw.rs:27-29
SIGN_MASK == <<32767, 65535, 65535, 65535>>
QUIET_NAN == <<32760, 0, 0, 0>>
NEG_QUIET_NAN == <<65528, 0, 0, 0>>

\* f64::is_nan: the exponent is all ones and the significand is not zero
is_nan(f) ==
    /\ (f[1] \div 16) % 2048 = 2047
    /\ (f[1] % 16 # 0 \/ f[2] # 0 \/ f[3] # 0 \/ f[4] # 0)

\* f64::is_sign_positive: the sign bit is clear
is_sign_positive(f) == f[1] < 32768

\* Option<T>
None == [is_some |-> FALSE]
Some(x) == [is_some |-> TRUE, val |-> x]

----------------------------------------------------------------------------
(* RawTag (raw.rs:217-358)                                                  *)

TagVal == {"_P1", "_P2", "_P3", "_P4", "_P5", "_P6", "_P7",
           "_N1", "_N2", "_N3", "_N4", "_N5", "_N6", "_N7"}

\* The result of core::hint::unreachable_unchecked(): no defined tag.
Unreachable == "unreachable_unchecked"

new_unchecked(neg, val) ==
    CASE ~neg /\ val = 1 -> "_P1"
      [] ~neg /\ val = 2 -> "_P2"
      [] ~neg /\ val = 3 -> "_P3"
      [] ~neg /\ val = 4 -> "_P4"
      [] ~neg /\ val = 5 -> "_P5"
      [] ~neg /\ val = 6 -> "_P6"
      [] ~neg /\ val = 7 -> "_P7"
      [] neg /\ val = 1 -> "_N1"
      [] neg /\ val = 2 -> "_N2"
      [] neg /\ val = 3 -> "_N3"
      [] neg /\ val = 4 -> "_N4"
      [] neg /\ val = 5 -> "_N5"
      [] neg /\ val = 6 -> "_N6"
      [] neg /\ val = 7 -> "_N7"
      [] OTHER -> Unreachable

\* RawTag::new(neg, val), val a NonZeroU8: new_unchecked(neg, val & 0x07).
\* When val & 0x07 is 0 the call breaks new_unchecked's contract and runs
\* into unreachable_unchecked(): undefined behaviour, which may leave any
\* of the 14 tags or no tag at all.
RawTag_new(neg, val) ==
    LET t == new_unchecked(neg, BitAnd(val, 7))
    IN  IF t = Unreachable THEN TagVal \cup {Unreachable} ELSE {t}

neg_val(tag) ==
    CASE tag = "_P1" -> <<FALSE, 1>>
      [] tag = "_P2" -> <<FALSE, 2>>
      [] tag = "_P3" -> <<FALSE, 3>>
      [] tag = "_P4" -> <<FALSE, 4>>
      [] tag = "_P5" -> <<FALSE, 5>>
      [] tag = "_P6" -> <<FALSE, 6>>
      [] tag = "_P7" -> <<FALSE, 7>>
      [] tag = "_N1" -> <<TRUE, 1>>
      [] tag = "_N2" -> <<TRUE, 2>>
      [] tag = "_N3" -> <<TRUE, 3>>
      [] tag = "_N4" -> <<TRUE, 4>>
      [] tag = "_N5" -> <<TRUE, 5>>
      [] tag = "_N6" -> <<TRUE, 6>>
      [] tag = "_N7" -> <<TRUE, 7>>

----------------------------------------------------------------------------
(* Header (raw.rs:369-400)                                                  *)

\* Faulty variant of Header::new: the tag magnitude is left out
Header_new_no_magnitude(tag) ==
    LET nv == neg_val(tag)
    IN  BitOr(32760, IF nv[1] THEN 32768 ELSE 0)

Header_new(tag) ==
    LET nv == neg_val(tag)
    IN  BitOr(BitOr(32760, IF nv[1] THEN 32768 ELSE 0), nv[2])

get_sign(h) == BitAnd(h, 32768) # 0

\* get_tag with a mask of two bits
get_tag_two_bits(h) == BitAnd(h, 3)

get_tag(h) == BitAnd(h, 7)

Header_tag(h) == new_unchecked(get_sign(h), get_tag(h))

----------------------------------------------------------------------------
(* Value (raw.rs:402-520): [header, data], 8 bytes, data at the low         *)
(* addresses and the header in the top two bytes (little-endian target).    *)

Value_new(tag, data) == [header |-> Header_new(tag), data |-> data]

Value_empty(tag) == Value_new(tag, ZeroData)

Value_tag(v) == Header_tag(v.header)

\* Faulty variant of set_data: the 8 bytes are written, the header zeroed
set_data_clears_header(v, val) == [header |-> 0, data |-> val]

set_data(v, val) == [v EXCEPT !.data = val]

\* Value::whole: the 8 bytes of the Value read as one native-endian word
whole(v) ==
    <<v.header,
      v.data[6] * 256 + v.data[5],
      v.data[4] * 256 + v.data[3],
      v.data[2] * 256 + v.data[1]>>

\* The Value that a write of the word w through whole_mut() leaves
from_whole(w) ==
    [header |-> w[1],
     data |-> <<w[4] % 256, w[4] \div 256,
                w[3] % 256, w[3] \div 256,
                w[2] % 256, w[2] \div 256>>]

----------------------------------------------------------------------------
(* RawStore (raw.rs:39-215).  A payload names the type stored, ty, and the  *)
(* value: b for a bool, n for an integer, w for a [u8; 6] or for a pointer, *)
(* which is its address, a 64-bit word.  Integers are stored by to_ne_bytes *)
(* on a little-endian target.  A u32 is the pair <<high, low>> of its       *)
(* 16-bit halves, kept in w.                                                *)

BytesP(d) == [ty |-> "bytes", b |-> FALSE, n |-> 0, w |-> d]

BoolP(x) == [ty |-> "bool", b |-> x, n |-> 0, w |-> <<>>]

IntP(ty, i) == [ty |-> ty, b |-> FALSE, n |-> i, w |-> <<>>]

PtrP(a) == [ty |-> "ptr", b |-> FALSE, n |-> 0, w |-> a]

U32P(x) == [ty |-> "u32", b |-> FALSE, n |-> 0, w |-> x]

\* An f64 written through float_mut()
F64P(f) == [ty |-> "f64", b |-> FALSE, n |-> 0, w |-> f]

\* No payload stored
NoP == [ty |-> "none", b |-> FALSE, n |-> 0, w |-> <<>>]

\* ArrayExt::truncate_to::<6> of an array of n elements (raw.rs:16-25)
truncate_to(arr) ==
    [i \in 1..6 |-> IF i <= Len(arr) THEN arr[i] ELSE 0]

\* <T>::to_ne_bytes of an integer of n bytes, two's complement
to_ne_bytes(x, n) == [k \in 1..n |-> (x \div (256 ^ (k - 1))) % 256]

\* Faulty variant of from_ne_bytes: only the first byte is read
from_ne_bytes_first_byte(bytes, n, signed) == bytes[1]

\* <T>::from_ne_bytes of the first n bytes, as an unsigned or signed integer
RECURSIVE from_ne_bytes(_, _, _)
from_ne_bytes(bytes, n, signed) ==
    IF n = 1
    THEN IF signed /\ bytes[1] >= 128 THEN bytes[1] - 256 ELSE bytes[1]
    ELSE bytes[1] + 256 * from_ne_bytes(Tail(bytes), n - 1, signed)

\* u32::to_ne_bytes and u32::from_ne_bytes
to_ne_bytes_u32(x) == <<x[2] % 256, x[2] \div 256, x[1] % 256, x[1] \div 256>>

from_ne_bytes_u32(bytes) ==
    <<bytes[4] * 256 + bytes[3], bytes[2] * 256 + bytes[1]>>

IntWidth(ty) ==
    CASE ty \in {"u8", "i8"} -> 1
      [] ty \in {"u16", "i16"} -> 2
      [] ty \in {"u32", "i32"} -> 4

IntSigned(ty) == ty \in {"i8", "i16", "i32"}

\* The integer types that implement RawStore
IntTypes == {"u8", "u16", "u32", "i8", "i16", "i32"}

\* The integer a payload holds
IntValue(p) == IF p.ty = "u32" THEN p.w ELSE p.n

\* Faulty variant of store_ptr's assertion: every address passes
store_ptr_fits_always(addr) == TRUE

\* store_ptr, 64-bit target: the assertion, then the write of
\* addr | (header << 48) over the whole 8 bytes of the Value
store_ptr_fits(addr) == addr[1] = 0

\* Faulty variant of store_ptr: the address is written without the header
store_ptr_no_header(value, addr) == from_whole(addr)

store_ptr(value, addr) ==
    from_whole(<<BitOr(addr[1], value.header), addr[2], addr[3], addr[4]>>)

\* Faulty variant of load_ptr: the top 16 bits are not masked off
load_ptr_no_mask(value) == whole(value)

\* Faulty variant of load_ptr: the top 32 bits are masked off
load_ptr_low32(value) ==
    LET w == whole(value) IN <<0, 0, w[3], w[4]>>

\* load_ptr, 64-bit target: the whole word with the top 16 bits masked off
load_ptr(value) ==
    LET w == whole(value) IN <<0, w[2], w[3], w[4]>>

\* RawStore::to_val, by the type stored
to_val(p, value) ==
    CASE p.ty = "bytes" -> set_data(value, p.w)
      [] p.ty = "bool" -> set_data(value, truncate_to(<<1>>))
      [] p.ty = "ptr" -> store_ptr(value, p.w)
      [] p.ty = "u32" -> set_data(value, truncate_to(to_ne_bytes_u32(p.w)))
      [] OTHER -> set_data(value, truncate_to(to_ne_bytes(p.n, IntWidth(p.ty))))

\* RawStore::from_val, by the type read
from_val(ty, value) ==
    CASE ty = "bytes" -> value.data
      [] ty = "bool" -> value.data[1] = 1
      [] ty = "ptr" -> load_ptr(value)
      [] ty = "u32" -> from_ne_bytes_u32(value.data)
      [] OTHER -> from_ne_bytes(value.data, IntWidth(ty), IntSigned(ty))

\* Whether to_val(p, _) returns rather than panics
to_val_returns(p) == p.ty = "ptr" => store_ptr_fits(p.w)

\* Value::store: a new Value with all-zero data, then to_val
Value_store(tag, p) == to_val(p, Value_new(tag, ZeroData))

\* Value::load: no tag check
Value_load(ty, value) == from_val(ty, value)

----------------------------------------------------------------------------
(* RawBox (raw.rs:552-726): the union, as its 64-bit word                   *)

\* Faulty variant of from_float: every NaN becomes the positive canonical NaN
from_float_drops_sign(val) == IF is_nan(val) THEN QUIET_NAN ELSE val

from_float(val) ==
    IF is_nan(val)
    THEN (IF is_sign_positive(val) THEN QUIET_NAN ELSE NEG_QUIET_NAN)
    ELSE val

from_value(value) == whole(value)

\* Faulty variant of is_float: the sign bit is not masked off
is_float_no_mask(b) == ~is_nan(b) \/ b = QUIET_NAN

is_float(b) == ~is_nan(b) \/ And64(b, SIGN_MASK) = QUIET_NAN

is_value(b) == is_nan(b) /\ And64(b, SIGN_MASK) # QUIET_NAN

RawBox_tag(b) == IF is_value(b) THEN Some(Value_tag(from_whole(b))) ELSE None

RawBox_float(b) == IF is_float(b) THEN Some(b) ELSE None

RawBox_value(b) == IF is_value(b) THEN Some(from_whole(b)) ELSE None

RawBox_value_mut(b) == IF is_value(b) THEN Some(from_whole(b)) ELSE None

\* Result: Ok(x) and Err(x)
Ok(x) == [is_ok |-> TRUE, val |-> x]

Err(x) == [is_ok |-> FALSE, val |-> x]

\* RawBox::into_float: the float, or the box given back
RawBox_into_float(b) == IF is_float(b) THEN Ok(b) ELSE Err(b)

\* Faulty variant of into_value: the box is not tested
RawBox_into_value_unchecked(b) == Ok(from_whole(b))

\* RawBox::into_value: the Value, or the box given back
RawBox_into_value(b) == IF is_value(b) THEN Ok(from_whole(b)) ELSE Err(b)

\* Faulty variant of from_mut: the sign bit is not masked off
from_mut_no_mask(val) ==
    IF is_nan(val) /\ val # QUIET_NAN THEN None ELSE Some(val)

\* SingleNaNF64::from_mut (singlenan.rs:27-35)
from_mut(val) ==
    IF is_nan(val) /\ And64(val, SIGN_MASK) # QUIET_NAN THEN None ELSE Some(val)

RawBox_float_mut(b) == IF is_float(b) THEN from_mut(b) ELSE None

\* Faulty variant of Clone for RawBox: the copy is made through from_float
RawBox_clone_through_float(b) == from_float(b)

\* Clone for RawBox: a copy of the 8 bytes through the ptr member
RawBox_clone(b) == b

----------------------------------------------------------------------------
(* PrimitiveTag (nan_boxed.rs:17-69)                                        *)

PrimitiveTag == {"Null", "Undefined", "Boolean", "Integer32",
                 "BigInt", "Object", "Symbol", "String"}

\* Faulty variant of PrimitiveTag::raw: Symbol is given Object's tag
PrimitiveTag_raw_symbol_as_object(p) ==
    CASE p = "Null" -> new_unchecked(FALSE, 1)
      [] p = "Undefined" -> new_unchecked(FALSE, 2)
      [] p = "Boolean" -> new_unchecked(FALSE, 3)
      [] p = "Integer32" -> new_unchecked(FALSE, 4)
      [] p = "BigInt" -> new_unchecked(TRUE, 1)
      [] p = "Object" -> new_unchecked(TRUE, 2)
      [] p = "Symbol" -> new_unchecked(TRUE, 2)
      [] p = "String" -> new_unchecked(TRUE, 4)

\* Faulty variant of PrimitiveTag::raw: String is given a reserved tag
PrimitiveTag_raw_string_reserved(p) ==
    CASE p = "Null" -> new_unchecked(FALSE, 1)
      [] p = "Undefined" -> new_unchecked(FALSE, 2)
      [] p = "Boolean" -> new_unchecked(FALSE, 3)
      [] p = "Integer32" -> new_unchecked(FALSE, 4)
      [] p = "BigInt" -> new_unchecked(TRUE, 1)
      [] p = "Object" -> new_unchecked(TRUE, 2)
      [] p = "Symbol" -> new_unchecked(TRUE, 3)
      [] p = "String" -> new_unchecked(TRUE, 5)

PrimitiveTag_raw(p) ==
    CASE p = "Null" -> new_unchecked(FALSE, 1)
      [] p = "Undefined" -> new_unchecked(FALSE, 2)
      [] p = "Boolean" -> new_unchecked(FALSE, 3)
      [] p = "Integer32" -> new_unchecked(FALSE, 4)
      [] p = "BigInt" -> new_unchecked(TRUE, 1)
      [] p = "Object" -> new_unchecked(TRUE, 2)
      [] p = "Symbol" -> new_unchecked(TRUE, 3)
      [] p = "String" -> new_unchecked(TRUE, 4)

\* Faulty variant of Into<PrimitiveTag>: Null and Undefined are exchanged
PrimitiveTag_from_swapped(tag) ==
    LET nv == neg_val(tag)
    IN  CASE nv = <<FALSE, 1>> -> "Undefined"
          [] nv = <<FALSE, 2>> -> "Null"
          [] nv = <<FALSE, 3>> -> "Boolean"
          [] nv = <<FALSE, 4>> -> "Integer32"
          [] nv = <<TRUE, 1>> -> "BigInt"
          [] nv = <<TRUE, 2>> -> "Object"
          [] nv = <<TRUE, 3>> -> "Symbol"
          [] nv = <<TRUE, 4>> -> "String"
          [] OTHER -> Unreachable

\* Into<PrimitiveTag> for RawTag
PrimitiveTag_from(tag) ==
    LET nv == neg_val(tag)
    IN  CASE nv = <<FALSE, 1>> -> "Null"
          [] nv = <<FALSE, 2>> -> "Undefined"
          [] nv = <<FALSE, 3>> -> "Boolean"
          [] nv = <<FALSE, 4>> -> "Integer32"
          [] nv = <<TRUE, 1>> -> "BigInt"
          [] nv = <<TRUE, 2>> -> "Object"
          [] nv = <<TRUE, 3>> -> "Symbol"
          [] nv = <<TRUE, 4>> -> "String"
          [] OTHER -> Unreachable

----------------------------------------------------------------------------
(* NanBoxedValue (nan_boxed.rs:124-383): the word of the RawBox it wraps.   *)
(* A heap constructor is given the address that into_raw() returned; a heap *)
(* accessor gives the address it hands to from_raw().                       *)

null == from_value(Value_empty(PrimitiveTag_raw("Null")))

undefined == from_value(Value_empty(PrimitiveTag_raw("Undefined")))

float64(value) == from_float(value)

integer32(value) ==
    from_value(Value_store(PrimitiveTag_raw("Integer32"), IntP("i32", value)))

boolean(value) ==
    from_value(Value_store(PrimitiveTag_raw("Boolean"), BoolP(value)))

bigint(raw) ==
    from_value(Value_store(PrimitiveTag_raw("BigInt"), PtrP(raw)))

object(raw) ==
    from_value(Value_store(PrimitiveTag_raw("Object"), PtrP(raw)))

symbol(raw) ==
    from_value(Value_store(PrimitiveTag_raw("Symbol"), PtrP(raw)))

string(raw) ==
    from_value(Value_store(PrimitiveTag_raw("String"), PtrP(raw)))

is_undefined(b) == RawBox_tag(b) = Some(PrimitiveTag_raw("Undefined"))

is_null(b) == RawBox_tag(b) = Some(PrimitiveTag_raw("Null"))

is_bool(b) == RawBox_tag(b) = Some(PrimitiveTag_raw("Boolean"))

is_float64(b) == is_float(b)

is_integer32(b) == RawBox_tag(b) = Some(PrimitiveTag_raw("Integer32"))

is_bigint(b) == RawBox_tag(b) = Some(PrimitiveTag_raw("BigInt"))

is_object(b) == RawBox_tag(b) = Some(PrimitiveTag_raw("Object"))

is_symbol(b) == RawBox_tag(b) = Some(PrimitiveTag_raw("Symbol"))

is_string(b) == RawBox_tag(b) = Some(PrimitiveTag_raw("String"))

\* Option::map
Option_map(ty, o) == IF o.is_some THEN Some(from_val(ty, o.val)) ELSE None

as_float64(b) == RawBox_float(b)

as_integer32(b) ==
    IF is_integer32(b)
    THEN Option_map("i32", RawBox_value(b))
    ELSE None

as_bool(b) ==
    IF is_bool(b)
    THEN Option_map("bool", RawBox_value(b))
    ELSE None

as_bigint(b) ==
    IF is_bigint(b)
    THEN Option_map("ptr", RawBox_value(b))
    ELSE None

as_object(b) ==
    IF is_object(b)
    THEN Option_map("ptr", RawBox_value(b))
    ELSE None

as_symbol(b) ==
    IF is_symbol(b)
    THEN Option_map("ptr", RawBox_value(b))
    ELSE None

as_string(b) ==
    IF is_string(b)
    THEN Option_map("ptr", RawBox_value(b))
    ELSE None

\* JsVariant: the variant's name and its payload, b for Boolean, n for
\* Integer32, w for Float64 (the bits) and for the heap kinds (the address
\* of the handle)
JsVariant(name, b, n, w) == [name |-> name, b |-> b, n |-> n, w |-> w]

\* Option::unwrap: the payload, or a panic
Panicked == JsVariant("panic", FALSE, 0, <<>>)

\* as_variant(): the match on self.0.tag() mapped into PrimitiveTag
as_variant(b) ==
    LET t == RawBox_tag(b)
        pt == IF t.is_some THEN PrimitiveTag_from(t.val) ELSE "None"
        unwrap(o, name) ==
            IF o.is_some THEN JsVariant(name, FALSE, 0, o.val) ELSE Panicked
    IN  CASE pt = "None" -> unwrap(as_float64(b), "Float64")
          [] pt = "Null" -> JsVariant("Null", FALSE, 0, <<>>)
          [] pt = "Undefined" -> JsVariant("Undefined", FALSE, 0, <<>>)
          [] pt = "Boolean" ->
                IF RawBox_value(b).is_some
                THEN JsVariant("Boolean", from_val("bool", RawBox_value(b).val),
                               0, <<>>)
                ELSE Panicked
          [] pt = "Integer32" ->
                IF RawBox_value(b).is_some
                THEN JsVariant("Integer32", FALSE,
                               from_val("i32", RawBox_value(b).val), <<>>)
                ELSE Panicked
          [] pt = "BigInt" -> unwrap(as_bigint(b), "BigInt")
          [] pt = "Object" -> unwrap(as_object(b), "Object")
          [] pt = "Symbol" -> unwrap(as_symbol(b), "Symbol")
          [] pt = "String" -> unwrap(as_string(b), "String")
          [] OTHER -> JsVariant(Unreachable, FALSE, 0, <<>>)

\* The nine semantic kinds, their predicates and their accessors
Kinds == {"null", "undefined", "boolean", "integer32", "float64",
          "bigint", "object", "symbol", "string"}

HeapKinds == {"bigint", "object", "symbol", "string"}

is_kind(k, b) ==
    CASE k = "null" -> is_null(b)
      [] k = "undefined" -> is_undefined(b)
      [] k = "boolean" -> is_bool(b)
      [] k = "integer32" -> is_integer32(b)
      [] k = "float64" -> is_float64(b)
      [] k = "bigint" -> is_bigint(b)
      [] k = "object" -> is_object(b)
      [] k = "symbol" -> is_symbol(b)
      [] k = "string" -> is_string(b)

\* as_<kind>, for the seven kinds that have one
as_kind(k, b) ==
    CASE k = "boolean" -> as_bool(b)
      [] k = "integer32" -> as_integer32(b)
      [] k = "float64" -> as_float64(b)
      [] k = "bigint" -> as_bigint(b)
      [] k = "object" -> as_object(b)
      [] k = "symbol" -> as_symbol(b)
      [] k = "string" -> as_string(b)

\* The constructor of kind k applied to the payload v
construct(k, v) ==
    CASE k = "null" -> null
      [] k = "undefined" -> undefined
      [] k = "boolean" -> boolean(v)
      [] k = "integer32" -> integer32(v)
      [] k = "float64" -> float64(v)
      [] k = "bigint" -> bigint(v)
      [] k = "object" -> object(v)
      [] k = "symbol" -> symbol(v)
      [] k = "string" -> string(v)

----------------------------------------------------------------------------
(* Inputs                                                                   *)

\* The number of payload writes followed through value_mut() on one RawBox
MaxWrites == 2

\* Top 16 bits of the floats tried: zeros, ones, finite values, the
\* infinities, and every pattern with an all-ones exponent of either sign
\* (0x7FF0..0x7FFF, 0xFFF0..0xFFFF): signalling and quiet NaNs, the canonical
\* NaNs and the NaNs whose top bits equal a Header.
FloatTops ==
    {0, 1, 16368, 16453, 32751, 32768, 49136, 49221, 65519}
        \cup (32752..32767) \cup (65520..65535)

Floats == {<<t, m, 0, l>> : t \in FloatTops, m \in {0, 32768}, l \in {0, 1}}

I32s == {0, 1, -1, 42, -42, 2147483647, -2147483647 - 1,
         2147483646, -2147483647}

Datas == {ZeroData, <<255, 255, 255, 255, 255, 255>>, <<0, 0, 0, 0, 0, 1>>,
          <<128, 0, 0, 0, 0, 0>>, <<1, 2, 3, 4, 5, 6>>}

\* NonZeroU8: every value of the type
NonZeroU8 == 1..255

\* Addresses that fit in 48 bits, and addresses that do not
Addrs48 == {<<0, 0, 0, 0>>, <<0, 0, 0, 8>>, <<0, 32768, 0, 16>>,
            <<0, 65535, 65535, 65528>>, <<0, 7, 43690, 21840>>}

AddrsBig == {<<1, 0, 0, 8>>, <<65535, 65535, 65535, 65528>>}

IntPayloads ==
    {IntP("i32", i) : i \in I32s}
        \cup {IntP("u8", i) : i \in {0, 255}}
        \cup {IntP("i8", i) : i \in {-128, -1, 127}}
        \cup {IntP("u16", i) : i \in {0, 65535}}
        \cup {IntP("i16", i) : i \in {-32768, 32767}}
        \cup {U32P(x) : x \in {<<0, 0>>, <<0, 1>>, <<32767, 65535>>,
                                <<32768, 0>>, <<65535, 65535>>}}

Payloads ==
    {BytesP(d) : d \in Datas}
        \cup {BoolP(x) : x \in BOOLEAN}
        \cup IntPayloads
        \cup {PtrP(a) : a \in Addrs48 \cup AddrsBig}

\* The payloads each NanBoxedValue constructor is tried on
CtorInputs(k) ==
    CASE k \in {"null", "undefined"} -> {0}
      [] k = "boolean" -> BOOLEAN
      [] k = "integer32" -> I32s
      [] k = "float64" -> Floats
      [] OTHER -> Addrs48 \ {<<0, 0, 0, 0>>}

\* RawSpec: no RawBox has been made
NoFloat == <<0, 0, 0, 0>>

\* NaNSpec: nothing has been done; typed tells whether `num` is held as a
\* SingleNaNF64, r is the f64 an operation was given or computed, and some
\* whether from_mut returned Some
NoNaNOp == [op |-> "none", r |-> NoFloat, some |-> FALSE, typed |-> FALSE]

NotMade ==
    [by |-> "none", kind |-> "-", tag |-> "-", f |-> NoFloat, p |-> NoP,
     w |-> NoFloat, n |-> 0, panicked |-> FALSE, ok |-> FALSE]

----------------------------------------------------------------------------
(* The heap handles (JsBigInt, JsObject, JsSymbol, JsString) and their      *)
(* allocations.  A handle is the address of its allocation; `heap` gives,   *)
(* per allocation, its kind, its reference count and how often it has been  *)
(* released.                                                                *)

MaxAllocs == 1
MaxBoxes == 2
MaxHandles == 2
MaxRc == 3

\* The operations made in one run of Spec
MaxOps == 4

Allocs == 1..MaxAllocs

\* The address of allocation a: non-null, aligned, using all 48 bits
AddrOf(a) == <<0, 65535 - a, a, 8 * a>>

NoAddr == <<0, 0, 0, 0>>

\* The allocation at an address, 0 when there is none
AllocAt(addr) ==
    IF \E a \in Allocs : AddrOf(a) = addr
    THEN CHOOSE a \in Allocs : AddrOf(a) = addr
    ELSE 0

Unused == [state |-> "unused", kind |-> "-", rc |-> 0, released |-> 0]

NoHeap == [a \in Allocs |-> Unused]

\* into_raw(self): the handle is consumed, the count is not changed
Handle_into_raw(h, addr) == h

\* from_raw(ptr): a handle is made, the count is not changed
Handle_from_raw(h, addr) == h

\* Clone for a handle: the count goes up by one
Handle_clone(h, addr) ==
    LET a == AllocAt(addr)
    IN  IF a = 0 THEN h ELSE [h EXCEPT ![a].rc = @ + 1]

\* Drop for a handle: the count goes down by one, and the allocation is
\* released when it reaches zero
Handle_drop(h, addr) ==
    LET a == AllocAt(addr)
    IN  IF a = 0 \/ h[a].rc = 0 THEN h
        ELSE IF h[a].rc = 1
        THEN [h EXCEPT ![a].rc = 0, ![a].state = "freed",
                       ![a].released = @ + 1]
        ELSE [h EXCEPT ![a].rc = @ - 1]

\* The heaps a step may leave when the code computes h and dereferences the
\* allocations at the addresses T: h itself when all of them are live, and
\* otherwise, a released allocation having been read and written, any count
\* for it.
Outcomes(h, T) ==
    LET dangling == {a \in Allocs : AddrOf(a) \in T /\ heap[a].state # "live"}
    IN  IF dangling = {} THEN {h}
        ELSE {[a \in Allocs |->
                  IF a \in dangling THEN [h[a] EXCEPT !.rc = r[a]] ELSE h[a]] :
              r \in [dangling -> 0..MaxRc]}

Dangles(T) ==
    \E a \in Allocs : AddrOf(a) \in T /\ heap[a].state # "live"

----------------------------------------------------------------------------
(* NanBoxedValue's Clone, Drop, Trace and Finalize (nan_boxed.rs:90-122,    *)
(* 459-482) on a heap h and the word w of self.  Each gives the heap it     *)
(* leaves, and Clone the word of the new value.                             *)

\* The accessor that returns Some for w, with the address it returns
HeldAs(w) ==
    IF as_object(w).is_some THEN [kind |-> "object", addr |-> as_object(w).val]
    ELSE IF as_string(w).is_some THEN [kind |-> "string", addr |-> as_string(w).val]
    ELSE IF as_bigint(w).is_some THEN [kind |-> "bigint", addr |-> as_bigint(w).val]
    ELSE IF as_symbol(w).is_some THEN [kind |-> "symbol", addr |-> as_symbol(w).val]
    ELSE [kind |-> "-", addr |-> NoAddr]

\* as_<kind>(): from_raw on the address read from the word
NanBoxedValue_as(h, k, w) ==
    IF as_kind(k, w).is_some THEN Handle_from_raw(h, as_kind(k, w).val) ELSE h

\* Faulty variant of clone: the bits of undefined are given, the heap left
NanBoxedValue_clone_gives_undefined(h, w) == [heap |-> h, word |-> undefined]

\* clone(): if let Some(o) = self.as_object() { Self::object(o.clone()) }
\* else ... else { Self(self.0.clone()) }; o is dropped at the end of its arm
NanBoxedValue_clone(h, w) ==
    LET o == HeldAs(w)
    IN  IF o.kind = "-"
        THEN [heap |-> h, word |-> RawBox_clone(w)]
        ELSE LET h1 == Handle_from_raw(h, o.addr)
                 h2 == Handle_clone(h1, o.addr)
                 h3 == Handle_into_raw(h2, o.addr)
                 h4 == Handle_drop(h3, o.addr)
             IN  [heap |-> h4, word |-> construct(o.kind, o.addr)]

\* drop(): the body is empty
NanBoxedValue_drop(h, w) == h

\* Faulty variant of trace: the handle of any heap kind is marked
NanBoxedValue_trace_any_heap(h, w) ==
    IF HeldAs(w).kind # "-"
    THEN [heap |-> Handle_drop(Handle_from_raw(h, HeldAs(w).addr),
                               HeldAs(w).addr),
          marked |-> 1, on |-> HeldAs(w).addr]
    ELSE [heap |-> h, marked |-> 0, on |-> NoAddr]

\* trace(mark): if let Some(o) = this.as_object() { mark(&o); }, then o is
\* dropped; marked is the number of calls of mark and `on` the handle given
NanBoxedValue_trace(h, w) ==
    IF as_object(w).is_some
    THEN [heap |-> Handle_drop(Handle_from_raw(h, as_object(w).val),
                               as_object(w).val),
          marked |-> 1, on |-> as_object(w).val]
    ELSE [heap |-> h, marked |-> 0, on |-> NoAddr]

\* finalize(): if let Some(o) = self.as_object() { o.finalize(); }, then o
\* is dropped; finalized is the number of calls forwarded and `on` the
\* handle they are made on
NanBoxedValue_finalize(h, w) ==
    IF as_object(w).is_some
    THEN [heap |-> Handle_drop(Handle_from_raw(h, as_object(w).val),
                               as_object(w).val),
          finalized |-> 1, on |-> as_object(w).val]
    ELSE [heap |-> h, finalized |-> 0, on |-> NoAddr]

\* as_variant(), and the JsVariant it returned dropped: the handle a heap
\* variant carries comes from from_raw on the address read from the word
NanBoxedValue_as_variant(h, w) ==
    LET v == as_variant(w)
    IN  IF v.name \in {"BigInt", "Object", "Symbol", "String"}
        THEN [heap |-> Handle_drop(Handle_from_raw(h, v.w), v.w),
              name |-> v.name, on |-> v.w]
        ELSE [heap |-> h, name |-> v.name, on |-> NoAddr]

-----------------------------------------------------------------------------
(* StrSpec: one reference-counted string, a SliceString of a parent string *)
(* or a ConcatString (string/src/vtable/slice.rs, concat.rs), cloned and   *)
(* dropped through its vtable.  Its count is a usize, a 64-bit word.  The  *)
(* parent is a JsString: a count of the handles to it, one more per clone, *)
(* one less per drop, released when the count reaches zero.                *)

Zero64 == <<0, 0, 0, 0>>

One64 == <<0, 0, 0, 1>>

usize_MAX == <<65535, 65535, 65535, 65535>>

\* a + b on 64 bits, and the carry out of bit 63
add64(a, b) ==
    LET s0 == a[4] + b[4]
        s1 == a[3] + b[3] + (s0 \div 65536)
        s2 == a[2] + b[2] + (s1 \div 65536)
        s3 == a[1] + b[1] + (s2 \div 65536)
    IN  [carry |-> s3 \div 65536,
         w |-> <<s3 % 65536, s2 % 65536, s1 % 65536, s0 % 65536>>]

\* a - b on 64 bits, and the borrow out of bit 63
sub64(a, b) ==
    LET d0 == a[4] - b[4]
        b0 == IF d0 < 0 THEN 1 ELSE 0
        d1 == a[3] - b[3] - b0
        b1 == IF d1 < 0 THEN 1 ELSE 0
        d2 == a[2] - b[2] - b1
        b2 == IF d2 < 0 THEN 1 ELSE 0
        d3 == a[1] - b[1] - b2
        b3 == IF d3 < 0 THEN 1 ELSE 0
    IN  [borrow |-> b3,
         w |-> <<(d3 + 65536) % 65536, (d2 + 65536) % 65536,
                 (d1 + 65536) % 65536, (d0 + 65536) % 65536>>]

\* usize::wrapping_add, which the code does not use
wrapping_add(a, b) == Some(add64(a, b).w)

\* usize::checked_add
checked_add(a, b) ==
    IF add64(a, b).carry = 1 THEN None
    ELSE Some(add64(a, b).w)

\* usize::wrapping_sub, which the code does not use
wrapping_sub(a, b) == Some(sub64(a, b).w)

\* usize::checked_sub
checked_sub(a, b) ==
    IF sub64(a, b).borrow = 1 THEN None
    ELSE Some(sub64(a, b).w)

MaxStrHandles == 3

MaxStrClones == 4

\* No string yet
NoStr ==
    [state |-> "none", kind |-> "none", refcount |-> Zero64, handles |-> 0,
     clones |-> 0, drops |-> 0, forgot |-> FALSE, deallocs |-> 0,
     op |-> "none", before |-> Zero64]

\* The parent string, held by one handle
ParentInit == [refcount |-> 1, handles |-> 1, deallocs |-> 0]

\* JsString::clone of a handle to p
JsString_clone(p) == [p EXCEPT !.refcount = @ + 1]

\* JsString::drop of a handle to p
JsString_drop(p) ==
    [p EXCEPT !.refcount = @ - 1,
              !.deallocs = IF p.refcount = 1 THEN @ + 1 ELSE @]

\* SliceString::new without the clone of the parent
SliceString_new_borrows(p) ==
    [str |-> [NoStr EXCEPT !.state = "live", !.kind = "slice",
                           !.refcount = One64],
     owned |-> p]

\* SliceString::new(owned, start, end): the slice, and the parent after
\* owned.clone()
SliceString_new(p) ==
    [str |-> [NoStr EXCEPT !.state = "live", !.kind = "slice",
                           !.refcount = One64],
     owned |-> JsString_clone(p)]

\* ConcatString::new(strings)
ConcatString_new ==
    [NoStr EXCEPT !.state = "live", !.kind = "concat", !.refcount = One64]

\* slice_clone(vtable): abort() when the count cannot grow
slice_clone(s) ==
    LET strong == checked_add(s.refcount, One64)
    IN  IF ~strong.is_some THEN [s EXCEPT !.state = "aborted"]
        ELSE [s EXCEPT !.refcount = strong.val]

\* slice_drop(vtable): abort() when the count cannot shrink; at zero the
\* box is dropped, and with it the handle `owned`
slice_drop(s) ==
    LET new == checked_sub(s.refcount, One64)
    IN  IF ~new.is_some THEN [s EXCEPT !.state = "aborted"]
        ELSE IF new.val # Zero64 THEN [s EXCEPT !.refcount = new.val]
        ELSE [s EXCEPT !.refcount = new.val, !.state = "freed",
                       !.deallocs = @ + 1]

\* clone(vtable) of concat.rs
concat_clone(s) ==
    LET strong == checked_add(s.refcount, One64)
    IN  IF ~strong.is_some THEN [s EXCEPT !.state = "aborted"]
        ELSE [s EXCEPT !.refcount = strong.val]

\* drop(vtable) of concat.rs: at zero the allocation is given back
concat_drop(s) ==
    LET new == checked_sub(s.refcount, One64)
    IN  IF ~new.is_some THEN [s EXCEPT !.state = "aborted"]
        ELSE IF new.val # Zero64 THEN [s EXCEPT !.refcount = new.val]
        ELSE [s EXCEPT !.refcount = new.val, !.state = "freed",
                       !.deallocs = @ + 1]

\* The counts a string is brought to by cloning it and forgetting the clone
ForgetTargets == {<<65535, 65535, 65535, 65534>>, usize_MAX}

----------------------------------------------------------------------------
(* Spec: NanBoxedValue instances and handles sharing allocations.  A step   *)
(* that dereferences a released allocation has undefined behaviour: it may  *)
(* leave any count there, and nothing is said of what follows it.           *)

NoOp ==
    [op |-> "none", w |-> NoAddr, out |-> NoAddr, kind |-> "-",
     addr |-> NoAddr, rc0 |-> 0, n |-> 0]

\* The reference count of the allocation at addr, 0 when there is none
RcAt(h, addr) == IF AllocAt(addr) = 0 THEN 0 ELSE h[AllocAt(addr)].rc

\* The non-heap values constructed
PlainInputs(k) ==
    CASE k \in {"null", "undefined"} -> {0}
      [] k = "boolean" -> {TRUE}
      [] k = "integer32" -> {-42}
      [] k = "float64" -> {<<65535, 65535, 65535, 65535>>}

\* A new allocation of kind k and its first handle
Alloc(k) ==
    /\ ~ub
    /\ ops < MaxOps
    /\ ops' = ops + 1
    /\ UNCHANGED <<num, nanop, str, parent>>
    /\ BagCardinality(handles) < MaxHandles
    /\ \E a \in Allocs :
           /\ heap[a].state = "unused"
           /\ \A x \in Allocs : x < a => heap[x].state # "unused"
           /\ heap' = [heap EXCEPT ![a] = [state |-> "live", kind |-> k,
                                           rc |-> 1, released |-> 0]]
           /\ handles' = handles (+) SetToBag({AddrOf(a)})
           /\ last' = [NoOp EXCEPT !.op = "alloc", !.kind = k,
                                   !.addr = AddrOf(a)]
    /\ UNCHANGED <<box, made, boxes, ub>>

\* handle.clone() outside any NanBoxedValue
CloneHandle(addr) ==
    /\ ~ub
    /\ ops < MaxOps
    /\ ops' = ops + 1
    /\ UNCHANGED <<num, nanop, str, parent>>
    /\ BagIn(addr, handles)
    /\ BagCardinality(handles) < MaxHandles
    /\ RcAt(heap, addr) < MaxRc
    /\ heap' \in Outcomes(Handle_clone(heap, addr), {addr})
    /\ ub' = (ub \/ Dangles({addr}))
    /\ handles' = handles (+) SetToBag({addr})
    /\ last' = [NoOp EXCEPT !.op = "clone_handle", !.addr = addr,
                            !.rc0 = RcAt(heap, addr)]
    /\ UNCHANGED <<box, made, boxes>>

\* drop(handle) outside any NanBoxedValue
DropHandle(addr) ==
    /\ ~ub
    /\ ops < MaxOps
    /\ ops' = ops + 1
    /\ UNCHANGED <<num, nanop, str, parent>>
    /\ BagIn(addr, handles)
    /\ heap' \in Outcomes(Handle_drop(heap, addr), {addr})
    /\ ub' = (ub \/ Dangles({addr}))
    /\ handles' = handles (-) SetToBag({addr})
    /\ last' = [NoOp EXCEPT !.op = "drop_handle", !.addr = addr,
                            !.rc0 = RcAt(heap, addr)]
    /\ UNCHANGED <<box, made, boxes>>

\* null(), undefined(), boolean(v), integer32(v), float64(v)
ConstructPlain(k, v) ==
    /\ ~ub
    /\ ops < MaxOps
    /\ ops' = ops + 1
    /\ UNCHANGED <<num, nanop, str, parent>>
    /\ BagCardinality(boxes) < MaxBoxes
    /\ boxes' = boxes (+) SetToBag({construct(k, v)})
    /\ last' = [NoOp EXCEPT !.op = "construct", !.kind = k,
                            !.out = construct(k, v)]
    /\ UNCHANGED <<box, made, handles, heap, ub>>

\* bigint(h), object(h), symbol(h), string(h): h.into_raw(), then the store
ConstructHeap(addr) ==
    /\ ~ub
    /\ ops < MaxOps
    /\ ops' = ops + 1
    /\ UNCHANGED <<num, nanop, str, parent>>
    /\ BagIn(addr, handles)
    /\ BagCardinality(boxes) < MaxBoxes
    /\ AllocAt(addr) # 0
    /\ LET k == heap[AllocAt(addr)].kind
       IN  /\ heap' = Handle_into_raw(heap, addr)
           /\ handles' = handles (-) SetToBag({addr})
           /\ boxes' = boxes (+) SetToBag({construct(k, addr)})
           /\ last' = [NoOp EXCEPT !.op = "construct", !.kind = k,
                                   !.addr = addr, !.out = construct(k, addr),
                                   !.rc0 = RcAt(heap, addr),
                                   !.n = CopiesIn(addr, handles)]
    /\ UNCHANGED <<box, made, ub>>

\* w.as_bigint(), w.as_object(), w.as_symbol(), w.as_string(): the handle
\* returned, if any, is kept
AsHeap(w, k) ==
    /\ ~ub
    /\ ops < MaxOps
    /\ ops' = ops + 1
    /\ UNCHANGED <<num, nanop, str, parent>>
    /\ BagIn(w, boxes)
    /\ LET r == as_kind(k, w)
       IN  /\ r.is_some => BagCardinality(handles) < MaxHandles
           /\ heap' = NanBoxedValue_as(heap, k, w)
           /\ handles' = IF r.is_some THEN handles (+) SetToBag({r.val})
                         ELSE handles
           /\ last' = [NoOp EXCEPT !.op = "as", !.w = w, !.kind = k,
                                   !.addr = IF r.is_some THEN r.val ELSE NoAddr,
                                   !.rc0 = RcAt(heap, HeldAs(w).addr),
                                   !.n = IF r.is_some THEN 1 ELSE 0]
    /\ UNCHANGED <<box, made, boxes, ub>>

\* w.clone()
Clone(w) ==
    /\ ~ub
    /\ ops < MaxOps
    /\ ops' = ops + 1
    /\ UNCHANGED <<num, nanop, str, parent>>
    /\ BagIn(w, boxes)
    /\ BagCardinality(boxes) < MaxBoxes
    /\ RcAt(heap, HeldAs(w).addr) < MaxRc
    /\ LET r == NanBoxedValue_clone(heap, w)
           T == IF HeldAs(w).kind = "-" THEN {} ELSE {HeldAs(w).addr}
       IN  /\ heap' \in Outcomes(r.heap, T)
           /\ ub' = (ub \/ Dangles(T))
           /\ boxes' = boxes (+) SetToBag({r.word})
           /\ last' = [NoOp EXCEPT !.op = "clone", !.w = w, !.out = r.word,
                                   !.kind = HeldAs(w).kind,
                                   !.addr = HeldAs(w).addr,
                                   !.rc0 = RcAt(heap, HeldAs(w).addr)]
    /\ UNCHANGED <<box, made, handles>>

\* drop(w)
Drop(w) ==
    /\ ~ub
    /\ ops < MaxOps
    /\ ops' = ops + 1
    /\ UNCHANGED <<num, nanop, str, parent>>
    /\ BagIn(w, boxes)
    /\ heap' = NanBoxedValue_drop(heap, w)
    /\ boxes' = boxes (-) SetToBag({w})
    /\ last' = [NoOp EXCEPT !.op = "drop", !.w = w, !.kind = HeldAs(w).kind,
                            !.addr = HeldAs(w).addr,
                            !.rc0 = RcAt(heap, HeldAs(w).addr)]
    /\ UNCHANGED <<box, made, handles, ub>>

\* w.trace(mark)
Trace(w) ==
    /\ ~ub
    /\ ops < MaxOps
    /\ ops' = ops + 1
    /\ UNCHANGED <<num, nanop, str, parent>>
    /\ BagIn(w, boxes)
    /\ LET r == NanBoxedValue_trace(heap, w)
           T == IF r.marked = 1 THEN {HeldAs(w).addr} ELSE {}
       IN  /\ heap' \in Outcomes(r.heap, T)
           /\ ub' = (ub \/ Dangles(T))
           /\ last' = [NoOp EXCEPT !.op = "trace", !.w = w, !.out = r.on,
                                   !.kind = HeldAs(w).kind,
                                   !.addr = HeldAs(w).addr,
                                   !.rc0 = RcAt(heap, HeldAs(w).addr),
                                   !.n = r.marked]
    /\ UNCHANGED <<box, made, boxes, handles>>

\* w.finalize()
Finalize(w) ==
    /\ ~ub
    /\ ops < MaxOps
    /\ ops' = ops + 1
    /\ UNCHANGED <<num, nanop, str, parent>>
    /\ BagIn(w, boxes)
    /\ LET r == NanBoxedValue_finalize(heap, w)
           T == IF r.finalized = 1 THEN {HeldAs(w).addr} ELSE {}
       IN  /\ heap' \in Outcomes(r.heap, T)
           /\ ub' = (ub \/ Dangles(T))
           /\ last' = [NoOp EXCEPT !.op = "finalize", !.w = w, !.out = r.on,
                                   !.kind = HeldAs(w).kind,
                                   !.addr = HeldAs(w).addr,
                                   !.rc0 = RcAt(heap, HeldAs(w).addr),
                                   !.n = r.finalized]
    /\ UNCHANGED <<box, made, boxes, handles>>

\* drop(w.as_variant())
AsVariant(w) ==
    /\ ~ub
    /\ ops < MaxOps
    /\ ops' = ops + 1
    /\ UNCHANGED <<num, nanop, str, parent>>
    /\ BagIn(w, boxes)
    /\ LET r == NanBoxedValue_as_variant(heap, w)
           T == IF r.on = NoAddr THEN {} ELSE {r.on}
       IN  /\ heap' \in Outcomes(r.heap, T)
           /\ ub' = (ub \/ Dangles(T))
           /\ last' = [NoOp EXCEPT !.op = "as_variant", !.w = w, !.out = r.on,
                                   !.kind = HeldAs(w).kind,
                                   !.addr = HeldAs(w).addr,
                                   !.rc0 = RcAt(heap, HeldAs(w).addr)]
    /\ UNCHANGED <<box, made, boxes, handles>>

\* The nine predicates w.is_*() and w.as_bool(), w.as_integer32(),
\* w.as_float64(): last.n is the number of predicates that hold
Inspect(w) ==
    /\ ~ub
    /\ ops < MaxOps
    /\ ops' = ops + 1
    /\ UNCHANGED <<num, nanop, str, parent>>
    /\ BagIn(w, boxes)
    /\ last' = [NoOp EXCEPT !.op = "is", !.w = w,
                            !.kind = HeldAs(w).kind,
                            !.addr = HeldAs(w).addr,
                            !.rc0 = RcAt(heap, HeldAs(w).addr),
                            !.n = Cardinality({k \in Kinds : is_kind(k, w)})]
    /\ UNCHANGED <<box, made, boxes, handles, heap, ub>>

Init ==
    /\ box = QUIET_NAN
    /\ made = NotMade
    /\ boxes = EmptyBag
    /\ handles = EmptyBag
    /\ heap = NoHeap
    /\ last = NoOp
    /\ ub = FALSE
    /\ ops = 0
    /\ num = NoFloat
    /\ nanop = NoNaNOp
    /\ str = NoStr
    /\ parent = ParentInit

Next ==
    \/ \E k \in HeapKinds : Alloc(k)
    \/ \E addr \in BagToSet(handles) : CloneHandle(addr)
    \/ \E addr \in BagToSet(handles) : DropHandle(addr)
    \/ \E k \in Kinds \ HeapKinds : \E v \in PlainInputs(k) : ConstructPlain(k, v)
    \/ \E addr \in BagToSet(handles) : ConstructHeap(addr)
    \/ \E w \in BagToSet(boxes), k \in HeapKinds : AsHeap(w, k)
    \/ \E w \in BagToSet(boxes) : Clone(w)
    \/ \E w \in BagToSet(boxes) : Drop(w)
    \/ \E w \in BagToSet(boxes) : Trace(w)
    \/ \E w \in BagToSet(boxes) : Finalize(w)
    \/ \E w \in BagToSet(boxes) : AsVariant(w)
    \/ \E w \in BagToSet(boxes) : Inspect(w)

Spec == Init /\ [][Next]_vars

----------------------------------------------------------------------------
(* NaNSpec: one f64, made a SingleNaNF64 by new() or viewed as one through  *)
(* from_mut(), then written and computed with (singlenan.rs:12-150).        *)

\* The f64 operands: both zeros, 1.0, -1.0, both infinities, both canonical
\* NaNs, a signalling NaN, quiet NaNs with a payload of either sign, and a
\* NaN whose top bits are the Header of an Integer32
NumInputs ==
    {<<0, 0, 0, 0>>, <<32768, 0, 0, 0>>, <<16368, 0, 0, 0>>,
     <<49136, 0, 0, 0>>, <<32752, 0, 0, 0>>, <<65520, 0, 0, 0>>,
     QUIET_NAN, NEG_QUIET_NAN, <<32752, 0, 0, 1>>, <<32760, 0, 0, 1>>,
     <<65535, 65535, 65535, 65535>>, <<32764, 0, 0, 42>>}

ArithOps == {"add", "sub", "mul", "div"}

is_infinite(f) == And64(f, SIGN_MASK) = <<32752, 0, 0, 0>>

is_zero(f) == And64(f, SIGN_MASK) = <<0, 0, 0, 0>>

\* Whether a op b is an invalid operation, whose result is a NaN
is_invalid(op, a, b) ==
    CASE op = "add" ->
            is_infinite(a) /\ is_infinite(b)
                /\ is_sign_positive(a) # is_sign_positive(b)
      [] op = "sub" ->
            is_infinite(a) /\ is_infinite(b)
                /\ is_sign_positive(a) = is_sign_positive(b)
      [] op = "mul" ->
            (is_zero(a) /\ is_infinite(b)) \/ (is_infinite(a) /\ is_zero(b))
      [] op = "div" ->
            (is_zero(a) /\ is_zero(b)) \/ (is_infinite(a) /\ is_infinite(b))

\* The f64 that a + b, a - b, a * b or a / b may give: some NaN, of either
\* sign and with any payload, when an operand is a NaN or the operation is
\* invalid, and otherwise some float that is not a NaN
f64_arith(op, a, b) ==
    IF is_nan(a) \/ is_nan(b) \/ is_invalid(op, a, b)
    THEN {r \in NumInputs : is_nan(r)}
    ELSE {r \in NumInputs : ~is_nan(r)}

\* Faulty variant of SingleNaNF64::new: the float is kept as it is
SingleNaNF64_new_keeps_bits(val) == val

\* SingleNaNF64::new
SingleNaNF64_new(val) ==
    CASE is_nan(val) /\ is_sign_positive(val) -> QUIET_NAN
      [] is_nan(val) /\ ~is_sign_positive(val) -> NEG_QUIET_NAN
      [] OTHER -> val

\* Faulty variant of write: the float is stored as it is
SingleNaNF64_write_keeps_bits(self, val) == val

\* SingleNaNF64::write: *self = SingleNaNF64::new(val)
SingleNaNF64_write(self, val) == SingleNaNF64_new(val)

\* SingleNaNF64::get
SingleNaNF64_get(self) == self

\* The values a SingleNaNF64 operand may have
SingleNaNs == {SingleNaNF64_new(f) : f \in NumInputs}

\* SingleNaNF64::new(f)
NaNNew(f) ==
    /\ num' = SingleNaNF64_new(f)
    /\ nanop' = [op |-> "new", r |-> f, some |-> FALSE, typed |-> TRUE]
    /\ UNCHANGED <<box, made, boxes, handles, heap, last, ub, ops, str, parent>>

\* SingleNaNF64::from_mut(&mut f) on an f64 that holds f: the reference
\* returned, if any, is to the same 8 bytes
NaNFromMut(f) ==
    /\ LET o == from_mut(f)
       IN  /\ num' = IF o.is_some THEN o.val ELSE f
           /\ nanop' = [op |-> "from_mut", r |-> f, some |-> o.is_some,
                        typed |-> o.is_some]
    /\ UNCHANGED <<box, made, boxes, handles, heap, last, ub, ops, str, parent>>

\* num.write(f)
NaNWrite(f) ==
    /\ nanop.typed
    /\ num' = SingleNaNF64_write(num, f)
    /\ nanop' = [op |-> "write", r |-> f, some |-> FALSE, typed |-> TRUE]
    /\ UNCHANGED <<box, made, boxes, handles, heap, last, ub, ops, str, parent>>

\* num.get()
NaNGet ==
    /\ nanop.typed
    /\ nanop.op # "get"
    /\ num' = num
    /\ nanop' = [op |-> "get", r |-> SingleNaNF64_get(num), some |-> FALSE,
                 typed |-> TRUE]
    /\ UNCHANGED <<box, made, boxes, handles, heap, last, ub, ops, str, parent>>

\* num + rhs, num - rhs, num * rhs, num / rhs with a SingleNaNF64 rhs:
\* SingleNaNF64::new(self.0 op rhs.0), r being what self.0 op rhs.0 gives;
\* the result is then the value looked at
NaNArith(op, rhs, r) ==
    /\ nanop.typed
    /\ r \in f64_arith(op, num, rhs)
    /\ num' = SingleNaNF64_new(r)
    /\ nanop' = [op |-> op, r |-> r, some |-> FALSE, typed |-> TRUE]
    /\ UNCHANGED <<box, made, boxes, handles, heap, last, ub, ops, str, parent>>

\* The same with an f64 rhs: SingleNaNF64::new(self.0 op rhs)
NaNArithF64(op, rhs, r) ==
    /\ nanop.typed
    /\ r \in f64_arith(op, num, rhs)
    /\ num' = SingleNaNF64_new(r)
    /\ nanop' = [op |-> op \o "_f64", r |-> r, some |-> FALSE, typed |-> TRUE]
    /\ UNCHANGED <<box, made, boxes, handles, heap, last, ub, ops, str, parent>>

\* num += rhs, num -= rhs, num *= rhs, num /= rhs: self.write(self.0 op rhs)
NaNArithAssign(op, rhs, r) ==
    /\ nanop.typed
    /\ r \in f64_arith(op, num, rhs)
    /\ num' = SingleNaNF64_write(num, r)
    /\ nanop' = [op |-> op \o "_assign", r |-> r, some |-> FALSE,
                 typed |-> TRUE]
    /\ UNCHANGED <<box, made, boxes, handles, heap, last, ub, ops, str, parent>>

NaNInit ==
    /\ box = QUIET_NAN
    /\ made = NotMade
    /\ boxes = EmptyBag
    /\ handles = EmptyBag
    /\ heap = NoHeap
    /\ last = NoOp
    /\ ub = FALSE
    /\ ops = 0
    /\ num = NoFloat
    /\ nanop = NoNaNOp
    /\ str = NoStr
    /\ parent = ParentInit

NaNNext ==
    \/ \E f \in NumInputs : NaNNew(f)
    \/ \E f \in NumInputs : NaNFromMut(f)
    \/ \E f \in NumInputs : NaNWrite(f)
    \/ NaNGet
    \/ \E op \in ArithOps, rhs \in SingleNaNs, r \in NumInputs :
           NaNArith(op, rhs, r)
    \/ \E op \in ArithOps, rhs \in NumInputs, r \in NumInputs :
           NaNArithF64(op, rhs, r)
    \/ \E op \in ArithOps, rhs \in NumInputs, r \in NumInputs :
           NaNArithAssign(op, rhs, r)

NaNSpec == NaNInit /\ [][NaNNext]_vars

----------------------------------------------------------------------------
(* RawSpec: one RawBox, built by one of the constructors, then written      *)
(* through value_mut(), then discarded.                                     *)

\* RawBox::from_float(f)
RawFromFloat(f) ==
    /\ made.by = "none"
    /\ box' = from_float(f)
    /\ made' = [NotMade EXCEPT !.by = "from_float", !.f = f]
    /\ UNCHANGED <<boxes, handles, heap, last, ub, ops, num, nanop, str, parent>>

\* RawBox::from_value(Value::new(tag, data))
RawFromValue(tag, data) ==
    /\ made.by = "none"
    /\ box' = from_value(Value_new(tag, data))
    /\ made' = [NotMade EXCEPT !.by = "from_value", !.tag = tag,
                               !.p = BytesP(data)]
    /\ UNCHANGED <<boxes, handles, heap, last, ub, ops, num, nanop, str, parent>>

\* RawBox::from_value(Value::store(tag, p)), p's store returning
RawFromStore(tag, p) ==
    /\ made.by = "none"
    /\ to_val_returns(p)
    /\ box' = from_value(Value_store(tag, p))
    /\ made' = [NotMade EXCEPT !.by = "from_value", !.tag = tag, !.p = p]
    /\ UNCHANGED <<boxes, handles, heap, last, ub, ops, num, nanop, str, parent>>

\* Value::store(tag, p) of a pointer that fails store_ptr's assertion: the
\* panic unwinds before anything is written and no RawBox is made
RawStorePanics(tag, p) ==
    /\ made.by = "none"
    /\ ~to_val_returns(p)
    /\ made' = [NotMade EXCEPT !.by = "none", !.tag = tag, !.p = p,
                               !.panicked = TRUE]
    /\ UNCHANGED <<box, boxes, handles, heap, last, ub, ops, num, nanop, str, parent>>

\* The argument of the constructor of kind k, as a payload
CtorPayload(k, v) ==
    CASE k = "boolean" -> BoolP(v)
      [] k = "integer32" -> IntP("i32", v)
      [] k \in HeapKinds -> PtrP(v)
      [] OTHER -> NoP

\* One of the nine NanBoxedValue constructors
RawConstruct(k, v) ==
    /\ made.by = "none"
    /\ box' = construct(k, v)
    /\ made' = [NotMade EXCEPT !.by = "ctor", !.kind = k,
                               !.f = IF k = "float64" THEN v ELSE NoFloat,
                               !.p = CtorPayload(k, v)]
    /\ UNCHANGED <<boxes, handles, heap, last, ub, ops, num, nanop, str, parent>>

\* p.to_val(box.value_mut().unwrap()), the store returning
RawWrite(p) ==
    /\ made.by \in {"from_value", "ctor"}
    /\ made.n < MaxWrites
    /\ RawBox_value_mut(box).is_some
    /\ to_val_returns(p)
    /\ box' = from_value(to_val(p, RawBox_value_mut(box).val))
    /\ made' = [made EXCEPT !.n = @ + 1, !.p = p, !.panicked = FALSE]
    /\ UNCHANGED <<boxes, handles, heap, last, ub, ops, num, nanop, str, parent>>

\* The same with a pointer that fails store_ptr's assertion
RawWritePanics(p) ==
    /\ made.by \in {"from_value", "ctor"}
    /\ made.n < MaxWrites
    /\ RawBox_value_mut(box).is_some
    /\ ~to_val_returns(p)
    /\ made' = [made EXCEPT !.n = @ + 1, !.p = p, !.panicked = TRUE]
    /\ UNCHANGED <<box, boxes, handles, heap, last, ub, ops, num, nanop, str, parent>>

\* box.float_mut().unwrap().write(f); made.p keeps the float written, and
\* made.f the float given to from_float only until the box is written
RawFloatWrite(f) ==
    /\ made.by = "from_float"
    /\ made.n < MaxWrites
    /\ RawBox_float_mut(box).is_some
    /\ box' = SingleNaNF64_write(RawBox_float_mut(box).val, f)
    /\ made' = [made EXCEPT !.n = @ + 1, !.p = F64P(f), !.f = NoFloat]
    /\ UNCHANGED <<boxes, handles, heap, last, ub, ops, num, nanop, str, parent>>

\* *box.float_mut().unwrap() += rhs, -= rhs, *= rhs, /= rhs, r being what
\* the f64 operation gives
RawFloatAssign(op, rhs, r) ==
    /\ made.by = "from_float"
    /\ made.n < MaxWrites
    /\ RawBox_float_mut(box).is_some
    /\ r \in f64_arith(op, RawBox_float_mut(box).val, rhs)
    /\ box' = SingleNaNF64_write(RawBox_float_mut(box).val, r)
    /\ made' = [made EXCEPT !.n = @ + 1, !.p = F64P(r), !.f = NoFloat]
    /\ UNCHANGED <<boxes, handles, heap, last, ub, ops, num, nanop, str, parent>>

\* clone() of the NanBoxedValue just constructed; the clone is then the
\* value looked at, and made.w keeps the word of the original
RawClone ==
    /\ made.by = "ctor"
    /\ made.n = 0
    /\ box' = NanBoxedValue_clone(heap, box).word
    /\ made' = [made EXCEPT !.by = "clone", !.w = box]
    /\ UNCHANGED <<boxes, handles, heap, last, ub, ops, num, nanop, str, parent>>

\* box.into_float(): made.ok tells Ok from Err, made.w keeps the bits of
\* the float or of the box given back
RawIntoFloat ==
    /\ made.by \in {"from_float", "from_value"}
    /\ made.n = 0
    /\ made' = [made EXCEPT !.by = "into_float",
                            !.ok = RawBox_into_float(box).is_ok,
                            !.w = RawBox_into_float(box).val]
    /\ UNCHANGED <<box, boxes, handles, heap, last, ub, ops, num, nanop, str, parent>>

\* box.into_value(): made.ok tells Ok from Err, made.w keeps the 8 bytes
\* of the Value or the bits of the box given back
RawIntoValue ==
    /\ made.by \in {"from_float", "from_value"}
    /\ made.n = 0
    /\ made' = [made EXCEPT !.by = "into_value",
                            !.ok = RawBox_into_value(box).is_ok,
                            !.w = IF RawBox_into_value(box).is_ok
                                  THEN whole(RawBox_into_value(box).val)
                                  ELSE RawBox_into_value(box).val]
    /\ UNCHANGED <<box, boxes, handles, heap, last, ub, ops, num, nanop, str, parent>>

\* RawTag::new(neg, val), leaving the tag t; made.p keeps neg and val
RawTagNew(neg, val, t) ==
    /\ made.by = "none"
    /\ t \in RawTag_new(neg, val)
    /\ made' = [NotMade EXCEPT !.by = "tag_new", !.tag = t,
                               !.p = [IntP("u8", val) EXCEPT !.b = neg]]
    /\ UNCHANGED <<box, boxes, handles, heap, last, ub, ops, num, nanop, str, parent>>

\* The RawBox goes out of scope
RawDiscard ==
    /\ made.by # "none"
    /\ box' = QUIET_NAN
    /\ made' = NotMade
    /\ UNCHANGED <<boxes, handles, heap, last, ub, ops, num, nanop, str, parent>>

RawInit ==
    /\ box = QUIET_NAN
    /\ made = NotMade
    /\ boxes = EmptyBag
    /\ handles = EmptyBag
    /\ heap = NoHeap
    /\ last = NoOp
    /\ ub = FALSE
    /\ ops = 0
    /\ num = NoFloat
    /\ nanop = NoNaNOp
    /\ str = NoStr
    /\ parent = ParentInit

RawNext ==
    \/ RawIntoFloat
    \/ RawIntoValue
    \/ \E f \in Floats : RawFromFloat(f)
    \/ \E tag \in TagVal, data \in Datas : RawFromValue(tag, data)
    \/ \E tag \in TagVal, p \in Payloads : RawFromStore(tag, p)
    \/ \E tag \in TagVal, p \in Payloads : RawStorePanics(tag, p)
    \/ \E f \in NumInputs : RawFloatWrite(f)
    \/ \E op \in ArithOps, rhs \in NumInputs, r \in NumInputs :
           RawFloatAssign(op, rhs, r)
    \/ RawClone
    \/ \E neg \in BOOLEAN, val \in NonZeroU8 :
           \E t \in TagVal \cup {Unreachable} : RawTagNew(neg, val, t)
    \/ \E k \in Kinds : \E v \in CtorInputs(k) : RawConstruct(k, v)
    \/ \E p \in Payloads : RawWrite(p)
    \/ \E p \in Payloads : RawWritePanics(p)
    \/ RawDiscard

RawSpec == RawInit /\ [][RawNext]_vars

-----------------------------------------------------------------------------
(* StrSpec: a slice or a concatenation is made, its handles are cloned,    *)
(* forgotten and dropped, and the parent's own handle is dropped.          *)

\* A slice of the parent is made
SliceNew ==
    /\ str.state = "none"
    /\ parent.handles >= 1
    /\ str' = [SliceString_new(parent).str EXCEPT !.handles = 1, !.op = "new"]
    /\ parent' = SliceString_new(parent).owned
    /\ UNCHANGED <<box, made, boxes, handles, heap, last, ub, ops, num, nanop>>

\* A concatenation is made
ConcatNew ==
    /\ str.state = "none"
    /\ str' = [ConcatString_new EXCEPT !.handles = 1, !.op = "new"]
    /\ UNCHANGED <<box, made, boxes, handles, heap, last, ub, ops, num, nanop,
                   parent>>

\* A handle to the string is cloned, through the vtable
StrClone ==
    /\ str.state = "live"
    /\ str.handles >= 1
    /\ str.handles < MaxStrHandles
    /\ str.clones < MaxStrClones
    /\ LET s == IF str.kind = "slice" THEN slice_clone(str)
                ELSE concat_clone(str)
       IN  str' = [s EXCEPT !.handles = IF s.state = "aborted" THEN @ ELSE @ + 1,
                            !.clones = IF s.state = "aborted" THEN @ ELSE @ + 1,
                            !.op = "clone", !.before = str.refcount]
    /\ UNCHANGED <<box, made, boxes, handles, heap, last, ub, ops, num, nanop,
                   parent>>

\* A handle is cloned and the clone forgotten (mem::forget), as often as
\* it takes to bring the count to c: every one of these clones is counted
StrCloneForget(c) ==
    /\ str.state = "live"
    /\ str.handles >= 1
    /\ ~str.forgot
    /\ str' = [str EXCEPT !.refcount = c, !.forgot = TRUE, !.op = "forget",
                          !.before = str.refcount]
    /\ UNCHANGED <<box, made, boxes, handles, heap, last, ub, ops, num, nanop,
                   parent>>

\* A handle to the string is dropped, through the vtable
StrDrop ==
    /\ str.state = "live"
    /\ str.handles >= 1
    /\ LET s == IF str.kind = "slice" THEN slice_drop(str)
                ELSE concat_drop(str)
       IN  /\ str' = [s EXCEPT !.handles = IF s.state = "aborted" THEN @ ELSE @ - 1,
                               !.drops = IF s.state = "aborted" THEN @ ELSE @ + 1,
                               !.op = "drop", !.before = str.refcount]
           /\ parent' = IF s.state = "freed" /\ s.kind = "slice"
                        THEN JsString_drop(parent) ELSE parent
    /\ UNCHANGED <<box, made, boxes, handles, heap, last, ub, ops, num, nanop>>

\* The handle to the parent that is not the slice's is dropped
ParentDrop ==
    /\ parent.handles >= 1
    /\ str.state # "aborted"
    /\ parent' = [JsString_drop(parent) EXCEPT !.handles = @ - 1]
    /\ str' = [str EXCEPT !.op = "parent_drop", !.before = str.refcount]
    /\ UNCHANGED <<box, made, boxes, handles, heap, last, ub, ops, num, nanop>>

StrInit ==
    /\ box = QUIET_NAN
    /\ made = NotMade
    /\ boxes = EmptyBag
    /\ handles = EmptyBag
    /\ heap = NoHeap
    /\ last = NoOp
    /\ ub = FALSE
    /\ ops = 0
    /\ num = NoFloat
    /\ nanop = NoNaNOp
    /\ str = NoStr
    /\ parent = ParentInit

StrNext ==
    \/ SliceNew
    \/ ConcatNew
    \/ StrClone
    \/ \E c \in ForgetTargets : StrCloneForget(c)
    \/ StrDrop
    \/ ParentDrop

StrSpec == StrInit /\ [][StrNext]_vars

----------------------------------------------------------------------------
(* Properties of the encoding, under RawSpec                                *)

\* C1: the NanBoxedValue built by the constructor of kind K satisfies is_K,
\* and for every other kind J is_J is false and as_J is None: exactly one of
\* the nine predicates holds, the constructor's.
C1_ExactlyOneKind ==
    (made.by = "ctor" /\ made.n = 0) =>
        /\ \A j \in Kinds : is_kind(j, box) <=> (j = made.kind)
        /\ \A j \in Kinds \ {"null", "undefined", made.kind} :
               ~as_kind(j, box).is_some

C1_Witness ==
    /\ made.by = "ctor" /\ made.n = 0 /\ made.kind = "symbol"
    /\ is_symbol(box) /\ ~is_object(box) /\ ~as_object(box).is_some

\* C2: float64(f).as_float64() is Some(x), x bit-identical to f when f is
\* not a NaN, 0x7FF8_0000_0000_0000 when f is a NaN with the sign bit clear
\* and 0xFFF8_0000_0000_0000 when f is a NaN with the sign bit set.
C2_FloatCanonical ==
    (made.by = "ctor" /\ made.kind = "float64") =>
        as_float64(box) =
            Some(IF ~is_nan(made.f) THEN made.f
                 ELSE IF made.f[1] < 32768 THEN <<32760, 0, 0, 0>>
                 ELSE <<65528, 0, 0, 0>>)

C2_Witness ==
    /\ made.by = "ctor" /\ made.kind = "float64"
    /\ made.f = <<65521, 32768, 0, 1>>
    /\ as_float64(box) = Some(<<65528, 0, 0, 0>>)

\* C3: for every pattern a RawBox holds exactly one of is_float and is_value
\* is true, is_value is (NaN and (bits & SIGN_MASK) != QUIET_NAN); tag, value
\* and value_mut are None iff is_float; float and float_mut are None iff
\* is_value.
C3_OneDiscriminator ==
    made.by # "none" =>
        /\ is_float(box) # is_value(box)
        /\ is_value(box) <=>
               (is_nan(box) /\ And64(box, SIGN_MASK) # <<32760, 0, 0, 0>>)
        /\ ~RawBox_tag(box).is_some <=> is_float(box)
        /\ ~RawBox_value(box).is_some <=> is_float(box)
        /\ ~RawBox_value_mut(box).is_some <=> is_float(box)
        /\ ~RawBox_float(box).is_some <=> is_value(box)
        /\ ~RawBox_float_mut(box).is_some <=> is_value(box)

C3_Witness ==
    /\ made.by = "from_float" /\ is_nan(made.f) /\ made.f[1] >= 32768
    /\ box = <<65528, 0, 0, 0>>
    /\ is_float(box) /\ ~RawBox_tag(box).is_some /\ RawBox_float_mut(box).is_some

\* C4: for each of the 14 tags and every payload the word of
\* from_value(Value::new(tag, payload)) is a quiet NaN, is_value, and
\* neither canonical NaN; every from_float(f) is_float, so it matches no tag
\* predicate.
C4_TagDisjoint ==
    /\ (made.by = "from_value" /\ made.n = 0) =>
           /\ is_nan(box) /\ BitAnd(box[1], 8) = 8
           /\ is_value(box)
           /\ box # <<32760, 0, 0, 0>> /\ box # <<65528, 0, 0, 0>>
    /\ (made.by = "from_float" \/ (made.by = "ctor" /\ made.kind = "float64")) =>
           /\ is_float(box)
           /\ \A j \in Kinds \ {"float64"} : ~is_kind(j, box)

C4_Witness ==
    /\ made.by = "from_value" /\ made.n = 0 /\ made.tag = "_N1"
    /\ box = <<65529, 0, 0, 0>> /\ is_value(box)

\* C5 (I2): in every Value made by Value::new, empty or store and then
\* written any number of times (set_data, to_val of a bool, an integer or a
\* pointer that fits in 48 bits) the tag magnitude is in 1..=7 and the
\* RawBox is_value: no payload write turns a tagged Value into a float.
C5_TagNeverZero ==
    (made.by = "from_value" \/ (made.by = "ctor" /\ made.kind # "float64")) =>
        /\ get_tag(box[1]) \in 1..7
        /\ is_value(box)

C5_Witness ==
    /\ made.by = "from_value" /\ made.n >= 1 /\ ~made.panicked
    /\ from_whole(box).data = ZeroData
    /\ is_value(box)

----------------------------------------------------------------------------
(* Properties of ownership, under Spec                                      *)

RECURSIVE HeldCopies(_, _)
\* The NanBoxedValue instances among the words W of `boxes` that hold addr
HeldCopies(W, addr) ==
    IF W = {} THEN 0
    ELSE LET w == CHOOSE x \in W : TRUE
         IN  (IF HeldAs(w).kind # "-" /\ HeldAs(w).addr = addr
              THEN CopiesIn(w, boxes) ELSE 0)
             + HeldCopies(W \ {w}, addr)

\* The live owners of allocation a: the NanBoxedValue instances that hold
\* it and the handles outside them
Owners(a) ==
    HeldCopies(BagToSet(boxes), AddrOf(a)) + CopiesIn(AddrOf(a), handles)

\* C6: each call of the matching as_<kind>() on a heap-kind value returns a
\* new handle and increments the reference count by one, so that v still
\* owns its reference once the returned handle is dropped.
C6_AsIncrementsCount ==
    /\ (last.op = "as" /\ last.n = 1) =>
           RcAt(heap, last.addr) = last.rc0 + 1
    /\ \A w \in BagToSet(boxes) :
           (HeldAs(w).kind # "-" /\ AllocAt(HeldAs(w).addr) # 0) =>
               heap[AllocAt(HeldAs(w).addr)].state = "live"

\* C7: for a heap-kind value a, the reference count after a.clone() returns
\* is the reference count before the call plus 1.
C7_CloneIncrementsCount ==
    (last.op = "clone" /\ last.kind \in HeapKinds) =>
        RcAt(heap, last.addr) = last.rc0 + 1

\* C8: dropping a heap-kind NanBoxedValue decreases the reference count by
\* exactly 1; dropping a null, undefined, boolean, integer32 or float64
\* value changes no reference count.
C8_DropReleasesOnce ==
    [][last'.op = "drop" =>
           IF last'.kind \in HeapKinds
           THEN RcAt(heap', last'.addr) = RcAt(heap, last'.addr) - 1
           ELSE heap' = heap]_vars

\* C9: the reference count of each allocation is the number of its live
\* owners; an allocation is never released while an owner is live, never
\* released twice, and is released once its last owner is dropped.
C9_OwnershipBalance ==
    \A a \in Allocs :
        /\ heap[a].state = "live" => heap[a].rc = Owners(a) /\ Owners(a) >= 1
        /\ heap[a].state = "freed" => Owners(a) = 0
        /\ heap[a].released <= 1

\* C10: bigint(h), object(h), symbol(h) and string(h) consume h without
\* changing the reference count, store h's address in the low 48 bits of the
\* word under the kind's tag, and a later as_<kind>() returns a handle to
\* that same allocation.
C10_ConstructConsumes ==
    /\ (last.op = "construct" /\ last.kind \in HeapKinds) =>
           /\ RcAt(heap, last.addr) = last.rc0
           /\ CopiesIn(last.addr, handles) = last.n - 1
           /\ BagIn(last.out, boxes)
           /\ last.out[1] = (CASE last.kind = "bigint" -> 65529
                               [] last.kind = "object" -> 65530
                               [] last.kind = "symbol" -> 65531
                               [] last.kind = "string" -> 65532)
           /\ <<0, last.out[2], last.out[3], last.out[4]>> = last.addr
           /\ as_kind(last.kind, last.out) = Some(last.addr)
    /\ (last.op = "as" /\ last.n = 1) =>
           /\ last.addr = <<0, last.w[2], last.w[3], last.w[4]>>
           /\ heap[AllocAt(last.addr)].kind = last.kind
           /\ BagIn(last.addr, handles)

C10_Witness ==
    /\ last.op = "construct" /\ last.kind = "string" /\ last.rc0 = 2
    /\ as_string(last.out) = Some(last.addr)
    /\ RcAt(heap, last.addr) = 2

----------------------------------------------------------------------------
(* Properties of the round trips, under RawSpec                             *)

\* C11: for b = true and for b = false, boolean(b).as_bool() is Some(b) and
\* boolean(b).as_variant() is Boolean(b); boolean(false) reads back false.
C11_BooleanRoundTrip ==
    (made.by = "ctor" /\ made.n = 0 /\ made.kind = "boolean") =>
        /\ as_bool(box) = Some(made.p.b)
        /\ as_variant(box) = JsVariant("Boolean", made.p.b, 0, <<>>)

\* C12: for every 32-bit integer i, integer32(i).as_integer32() is Some(i)
\* and integer32(i).as_float64() is None; for each integer type T of u8,
\* u16, u32, i8, i16, i32, every tag t and every x of T, the Value that
\* store(t, x) leaves (at construction or by a later store through
\* value_mut) loads back x as a T.
C12_IntegerRoundTrip ==
    /\ (made.by = "ctor" /\ made.n = 0 /\ made.kind = "integer32") =>
           /\ as_integer32(box) = Some(made.p.n)
           /\ as_float64(box) = None
    /\ (made.by = "from_value" /\ ~made.panicked /\ made.p.ty \in IntTypes) =>
           /\ RawBox_value(box).is_some
           /\ Value_load(made.p.ty, RawBox_value(box).val) = IntValue(made.p)

C12_Witness ==
    /\ made.by = "from_value" /\ made.n = 0 /\ made.tag = "_N7"
    /\ made.p = IntP("i32", -2147483647 - 1)
    /\ box = <<65535, 0, 32768, 0>>
    /\ Value_load("i32", RawBox_value(box).val) = -2147483647 - 1

\* The JsVariant name of a kind
KindVariant(k) ==
    CASE k = "null" -> "Null"
      [] k = "undefined" -> "Undefined"
      [] k = "boolean" -> "Boolean"
      [] k = "integer32" -> "Integer32"
      [] k = "float64" -> "Float64"
      [] k = "bigint" -> "BigInt"
      [] k = "object" -> "Object"
      [] k = "symbol" -> "Symbol"
      [] k = "string" -> "String"

\* C13: on every value made by one of the nine constructors as_variant()
\* returns without panicking, and it returns the variant of kind K with
\* payload p if and only if is_K() holds and as_K() is Some(p): Null and
\* Undefined carry nothing, and every float, the canonical NaNs included,
\* is Float64.
C13_VariantConsistent ==
    (made.by = "ctor" /\ made.n = 0) =>
        LET v == as_variant(box)
        IN  /\ v.name \in {KindVariant(k) : k \in Kinds}
            /\ \A k \in Kinds : (v.name = KindVariant(k)) <=> is_kind(k, box)
            /\ v.name = KindVariant(made.kind)
            /\ v.name = "Boolean" => as_bool(box) = Some(v.b)
            /\ v.name = "Integer32" => as_integer32(box) = Some(v.n)
            /\ v.name = "Float64" => as_float64(box) = Some(v.w)
            /\ \A k \in HeapKinds :
                   v.name = KindVariant(k) => as_kind(k, box) = Some(v.w)

C13_Witness ==
    /\ made.by = "ctor" /\ made.n = 0 /\ made.kind = "float64"
    /\ made.f = <<65535, 32768, 0, 1>>
    /\ as_variant(box) = JsVariant("Float64", FALSE, 0, NEG_QUIET_NAN)

\* C14: v.clone().as_variant() equals v.as_variant(); the clone of a null,
\* undefined, boolean, integer32 or float64 value has the 64-bit pattern of
\* v (a float keeps its exact bits, the sign of zero included), and the
\* clone of a heap-kind value has the tag and the allocation address of v.
C14_ClonePreservesValue ==
    made.by = "clone" =>
        /\ as_variant(box) = as_variant(made.w)
        /\ made.kind \notin HeapKinds => box = made.w
        /\ made.kind \in HeapKinds =>
               /\ RawBox_tag(box) = RawBox_tag(made.w)
               /\ as_kind(made.kind, box) = Some(made.p.w)
               /\ as_kind(made.kind, made.w) = Some(made.p.w)

C14_Witness ==
    /\ made.by = "clone" /\ made.kind = "float64"
    /\ made.w = <<32768, 0, 0, 0>>
    /\ box = <<32768, 0, 0, 0>>
    /\ as_variant(box) = JsVariant("Float64", FALSE, 0, <<32768, 0, 0, 0>>)

\* C15: on a 64-bit target, for every tag t and every address
\* a <= 0x0000_FFFF_FFFF_FFFF, the Value that the store of a pointer with
\* address a leaves under t has tag() = t and the 64-bit word
\* a | (header << 48), and the load of a pointer from it gives address a.
C15_PointerPacking ==
    (made.by = "from_value" /\ ~made.panicked /\ made.p.ty = "ptr") =>
        LET a == made.p.w
            v == RawBox_value(box)
            nv == neg_val(made.tag)
        IN  /\ a[1] = 0
            /\ v.is_some
            /\ Value_tag(v.val) = made.tag
            /\ whole(v.val) =
                   <<32760 + (IF nv[1] THEN 32768 ELSE 0) + nv[2],
                     a[2], a[3], a[4]>>
            /\ Value_load("ptr", v.val) = a

C15_Witness ==
    /\ made.by = "from_value" /\ made.n = 0 /\ made.tag = "_N4"
    /\ made.p = PtrP(<<0, 65535, 65535, 65528>>)
    /\ box = <<65532, 65535, 65535, 65528>>
    /\ Value_load("ptr", RawBox_value(box).val) = <<0, 65535, 65535, 65528>>

\* C16: the store of a pointer whose address exceeds 0x0000_FFFF_FFFF_FFFF
\* fails store_ptr's assertion: the store panics before anything is
\* written, every such store panics and no other does, so that no Value
\* whose header bits were overwritten by address bits is ever made and the
\* caller is handed nothing.
C16_StorePtrAsserts ==
    [][/\ made'.panicked =>
              /\ box' = box
              /\ made'.p.ty = "ptr"
              /\ made'.p.w[1] # 0
       /\ (made'.p.ty = "ptr" /\ made'.p.w[1] # 0) => made'.panicked
       /\ (made'.by = "from_value" /\ made.by = "none") =>
              RawBox_tag(box') = Some(made'.tag)
       /\ (made'.by = "from_value" /\ made.by = "from_value") =>
              /\ made'.tag = made.tag
              /\ RawBox_tag(box') = Some(made.tag)]_vars

C16_Witness ==
    /\ made.panicked /\ made.by = "from_value" /\ made.n = 1
    /\ made.tag = "_P2"
    /\ made.p = PtrP(<<1, 0, 0, 8>>)
    /\ box = <<32762, 0, 0, 0>>

\* C17: for every sign and every non-zero 8-bit value val (1..=255),
\* RawTag::new(sign, val) gives a tag of that sign whose magnitude is in
\* 1..=7, val masked into that range: never 0 and never an undefined tag.
C17_TagNewInRange ==
    made.by = "tag_new" =>
        /\ made.tag \in TagVal
        /\ neg_val(made.tag)[1] = made.p.b
        /\ neg_val(made.tag)[2] \in 1..7

----------------------------------------------------------------------------
(* Properties of the garbage-collector hooks, under Spec                    *)

\* C18: trace(mark) calls mark exactly once, on the object handle held, if
\* and only if the value is of object kind, and finalize() forwards to the
\* handle's finalizer if and only if the value is of object kind; on a
\* null, undefined, boolean, integer32, float64, bigint, symbol or string
\* value neither hook calls anything.
C18_HooksOnlyOnObjects ==
    last.op \in {"trace", "finalize"} =>
        /\ last.n = (IF is_object(last.w) THEN 1 ELSE 0)
        /\ is_object(last.w) =>
               /\ last.kind = "object"
               /\ last.out = <<0, last.w[2], last.w[3], last.w[4]>>
               /\ AllocAt(last.out) # 0
               /\ heap[AllocAt(last.out)].kind = "object"
        /\ ~is_object(last.w) => last.out = NoAddr

C18_Witness ==
    /\ last.op = "trace" /\ is_object(last.w) /\ last.n = 1
    /\ last.out = AddrOf(1)
    /\ heap[1].kind = "object"

----------------------------------------------------------------------------
(* Properties of SingleNaNF64, under NaNSpec                                *)

\* C19 (I4): after SingleNaNF64::new(f) for any f, and after any sequence
\* of write(), of +, -, * and / with a SingleNaNF64 or an f64 operand, and
\* of +=, -=, *= and /=, the bits held are those of a float that is not a
\* NaN, or exactly 0x7FF8_0000_0000_0000 or 0xFFF8_0000_0000_0000.
C19_SingleNaN ==
    nanop.typed =>
        \/ num = <<32760, 0, 0, 0>>
        \/ num = <<65528, 0, 0, 0>>
        \/ num[1] % 32768 < 32752
        \/ (num[1] % 32768 = 32752 /\ num[2] = 0 /\ num[3] = 0 /\ num[4] = 0)

C19_Witness ==
    /\ nanop.op = "div_assign" /\ nanop.typed
    /\ nanop.r = <<65535, 65535, 65535, 65535>>
    /\ num = <<65528, 0, 0, 0>>

\* C20: SingleNaNF64::from_mut(r) returns None if and only if the float
\* referred to is a NaN whose bits with the sign cleared differ from
\* 0x7FF8_0000_0000_0000; it returns Some for every float that is not a NaN
\* and for both canonical NaNs, and the float's bits are as they were after
\* the call in either case.
C20_FromMut ==
    nanop.op = "from_mut" =>
        /\ nanop.some <=>
               \/ nanop.r \in {<<32760, 0, 0, 0>>, <<65528, 0, 0, 0>>}
               \/ nanop.r[1] % 32768 < 32752
               \/ (nanop.r[1] % 32768 = 32752
                       /\ nanop.r[2] = 0 /\ nanop.r[3] = 0 /\ nanop.r[4] = 0)
        /\ nanop.typed = nanop.some
        /\ num = nanop.r

C20_Witness ==
    /\ nanop.op = "from_mut" /\ ~nanop.some
    /\ nanop.r = <<32764, 0, 0, 42>>
    /\ num = <<32764, 0, 0, 42>>

----------------------------------------------------------------------------
(* Properties of the float path and of the conversions, under RawSpec       *)

\* C21: for every RawBox made by from_float, float_mut() returns Some, and
\* after any sequence of writes and arithmetic assignments through the
\* SingleNaNF64 reference it returns the RawBox still is_float() and never
\* is_value(); for every RawBox made by from_value, float_mut() returns
\* None.
C21_FloatMutKeepsFloat ==
    /\ made.by = "from_float" =>
           /\ RawBox_float_mut(box).is_some
           /\ is_float(box)
           /\ ~is_value(box)
    /\ made.by = "from_value" => ~RawBox_float_mut(box).is_some

C21_Witness ==
    /\ made.by = "from_float" /\ made.n = 2
    /\ made.p = F64P(<<32764, 0, 0, 42>>)
    /\ box = QUIET_NAN
    /\ RawBox_float_mut(box) = Some(QUIET_NAN)

-----------------------------------------------------------------------------
(* Properties of the string reference counts, under StrSpec                *)

\* b is the 64-bit word one above a
Succ64(a, b) ==
    \E i \in 1..4 :
        /\ b[i] = a[i] + 1
        /\ \A j \in 1..4 : j < i => b[j] = a[j]
        /\ \A j \in 1..4 : j > i => a[j] = 65535 /\ b[j] = 0

\* C22: the count of a slice or of a concatenation never wraps: a clone at
\* usize::MAX aborts and leaves the count, a drop at zero aborts, and
\* every clone or drop that does not abort moves the count by exactly one
C22_RefcountNeverWraps ==
    [][/\ str'.op = "clone" =>
              IF str.refcount = usize_MAX
              THEN str'.state = "aborted" /\ str'.refcount = str.refcount
              ELSE str'.state = "live" /\ Succ64(str.refcount, str'.refcount)
       /\ str'.op = "drop" =>
              /\ str'.state # "aborted"
              /\ Succ64(str'.refcount, str.refcount)
       /\ str.state = "live" =>
              /\ slice_drop([str EXCEPT !.refcount = Zero64]).state = "aborted"
              /\ concat_drop([str EXCEPT !.refcount = Zero64]).state = "aborted"
              /\ slice_drop([str EXCEPT !.refcount = Zero64]).refcount = Zero64
              /\ concat_drop([str EXCEPT !.refcount = Zero64]).refcount = Zero64
      ]_vars

\* A clone was refused at usize::MAX, the count left where it was
C22_Witness ==
    /\ str.op = "clone"
    /\ str.state = "aborted"
    /\ str.before = usize_MAX
    /\ str.refcount = usize_MAX
    /\ str.forgot

-----------------------------------------------------------------------------
(* The layout of RawBox (raw.rs:369-412, 552-564), under RawSpec: sizes    *)
(* and alignments in bytes, for a pointer width pw of 32 or 64 bits.       *)

MaxOf(S) == CHOOSE n \in S : \A k \in S : k <= n

\* The size of a repr(C) type: its fields' bytes, padded to its alignment
round_up(n, a) == ((n + a - 1) \div a) * a

\* Header: repr(transparent) over a u16
Header_layout == [size |-> 2, align |-> 2]

\* A Value with a seventh byte of data
Value_layout_seven_bytes ==
    [size |-> round_up(7 + Header_layout.size, 8), align |-> 8]

\* Value: repr(C, align(8)) over [u8; 6] and a Header
Value_layout ==
    [size |-> round_up(6 + Header_layout.size, 8), align |-> 8]

\* The members of the union: float, value, bits, ptr
RawBox_members(pw) ==
    {[name |-> "float", size |-> 8, align |-> 8],
     [name |-> "value", size |-> Value_layout.size,
      align |-> Value_layout.align],
     [name |-> "bits", size |-> 8, align |-> 8],
     IF pw = 64 THEN [name |-> "ptr", size |-> 8, align |-> 8]
     ELSE [name |-> "ptr", size |-> 4 + 4, align |-> 4]}

\* size_of::<RawBox>(): a repr(C) union is as large as its largest member,
\* padded to the largest alignment
size_of_RawBox(pw) ==
    round_up(MaxOf({mb.size : mb \in RawBox_members(pw)}),
             MaxOf({mb.align : mb \in RawBox_members(pw)}))

\* C23: a RawBox is 8 bytes: the union is no larger than its f64, on both
\* pointer widths, and every box made is one 64-bit word of which the
\* Value view (2 bytes of header, 6 of data) covers every byte
C23_SizeIsEight ==
    /\ \A pw \in {32, 64} : size_of_RawBox(pw) = 8
    /\ made.by # "none" =>
           /\ Len(box) * 2 = size_of_RawBox(64)
           /\ \A i \in 1..4 : box[i] \in 0..65535
           /\ whole(from_whole(box)) = box
           /\ Len(from_whole(box).data) + Header_layout.size
                  = size_of_RawBox(64)

\* A box all of whose 8 bytes are in use
C23_Witness ==
    /\ made.by = "from_value"
    /\ made.n = 0
    /\ box = <<65535, 65535, 65535, 65535>>
    /\ from_whole(box).data = <<255, 255, 255, 255, 255, 255>>

\* C24: the header of a tag t of sign s and magnitude m is
\* 0x7FF8 | (s << 15) | m, its tag() is t again, and no other tag has it
C24_HeaderRoundTrip ==
    made.by = "from_value" /\ made.n = 0 =>
        LET t == made.tag
            h == Header_new(t)
            s == IF neg_val(t)[1] THEN 1 ELSE 0
            mg == neg_val(t)[2]
        IN  /\ box[1] = h
            /\ mg \in 1..7
            /\ h = 32760 + s * 32768 + mg
            /\ Header_tag(h) = t
            /\ \A u \in TagVal : u # t => Header_new(u) # h
            /\ Cardinality({Header_new(u) : u \in TagVal}) = 14

\* The header of the negative tag of magnitude 5 is 0xFFFD
C24_Witness ==
    /\ made.by = "from_value"
    /\ made.n = 0
    /\ neg_val(made.tag) = <<TRUE, 5>>
    /\ box[1] = 65533
    /\ Header_tag(box[1]) = made.tag

\* The six tags that no PrimitiveTag maps to
ReservedTags ==
    {new_unchecked(neg, val) : neg \in BOOLEAN, val \in 5..7}

\* C25: the eight PrimitiveTags have eight distinct raw tags and come back
\* from them; every tagged value made by a constructor, written to or
\* cloned carries one of the eight, never a reserved tag, so that the
\* unreachable arm of the conversion is not taken
C25_OnlyEightTags ==
    /\ \A p \in PrimitiveTag :
           /\ PrimitiveTag_raw(p) \in TagVal \ ReservedTags
           /\ PrimitiveTag_from(PrimitiveTag_raw(p)) = p
           /\ \A q \in PrimitiveTag :
                  p # q => PrimitiveTag_raw(p) # PrimitiveTag_raw(q)
    /\ Cardinality(ReservedTags) = 6
    /\ made.by \in {"ctor", "clone"} =>
           /\ made.kind # "float64" => is_value(box)
           /\ is_value(box) =>
                  /\ RawBox_tag(box).is_some
                  /\ RawBox_tag(box).val \in
                         {PrimitiveTag_raw(p) : p \in PrimitiveTag}
                  /\ RawBox_tag(box).val \notin ReservedTags
                  /\ PrimitiveTag_from(RawBox_tag(box).val) \in PrimitiveTag
                  /\ PrimitiveTag_from(RawBox_tag(box).val) # Unreachable

\* The clone of a string carries String's tag
C25_Witness ==
    /\ made.by = "clone"
    /\ made.kind = "string"
    /\ is_value(box)
    /\ box[1] = 65532
    /\ PrimitiveTag_from(RawBox_tag(box).val) = "String"

\* The Value that a box made by from_value was given
C26_Given ==
    IF made.p.ty = "bytes" THEN Value_new(made.tag, made.p.w)
    ELSE Value_store(made.tag, made.p)

\* C26: a box made from a Value gives the Value back from into_value(),
\* tag and payload as given, and itself from into_float() as an Err; a
\* box made from a float gives the float from into_float() and itself
\* from into_value() as an Err
C26_IntoOutcomes ==
    /\ made.by = "into_value" /\ made.tag # "-" =>
           /\ made.ok
           /\ from_whole(made.w) = C26_Given
           /\ Value_tag(from_whole(made.w)) = made.tag
           /\ made.p.ty = "bytes" => from_whole(made.w).data = made.p.w
    /\ made.by = "into_float" /\ made.tag # "-" =>
           /\ ~made.ok
           /\ made.w = box
           /\ box = whole(C26_Given)
    /\ made.by = "into_float" /\ made.tag = "-" =>
           /\ made.ok
           /\ made.w = from_float(made.f)
    /\ made.by = "into_value" /\ made.tag = "-" =>
           /\ ~made.ok
           /\ made.w = box
           /\ box = from_float(made.f)

\* A Value of a reserved tag with every payload bit set came back whole
C26_Witness ==
    /\ made.by = "into_value"
    /\ made.ok
    /\ neg_val(made.tag) = <<FALSE, 7>>
    /\ made.p = BytesP(<<255, 255, 255, 255, 255, 255>>)
    /\ made.w = <<32767, 65535, 65535, 65535>>

\* C27: a payload write that returns (6 bytes, a bool, an integer of any
\* of the six types, a pointer of at most 48 bits) leaves the 16 header
\* bits as they were, and tag() gives the tag it gave before
C27_WriteKeepsHeader ==
    [][(/\ made.by \in {"from_value", "ctor"}
        /\ made'.by = made.by
        /\ made'.n = made.n + 1
        /\ ~made'.panicked)
       => /\ made'.p.ty \in {"bytes", "bool", "ptr"} \cup IntTypes
          /\ made'.p.ty = "ptr" => made'.p.w[1] = 0
          /\ box'[1] = box[1]
          /\ from_whole(box').header = from_whole(box).header
          /\ RawBox_tag(box').is_some
          /\ RawBox_tag(box').val = RawBox_tag(box).val
          /\ made.by = "from_value" => RawBox_tag(box').val = made.tag
      ]_vars

\* A 48-bit pointer with every bit set but the low three was written over
\* a payload of 6 bytes, under a reserved negative tag
C27_Witness ==
    /\ made.by = "from_value"
    /\ made.n = 1
    /\ ~made.panicked
    /\ made.p = PtrP(<<0, 65535, 65535, 65528>>)
    /\ neg_val(made.tag) = <<TRUE, 6>>
    /\ box = <<65534, 65535, 65535, 65528>>

-----------------------------------------------------------------------------
(* Properties of observation, under Spec                                   *)

\* C28: the predicates, the accessors, as_variant(), clone(), trace() and
\* finalize() leave the 64 bits of the value they are called on: the live
\* values are those from before the call, with, after clone(), one more
\* of the same bits
C28_ObservationKeepsBits ==
    [][(/\ ops' = ops + 1
        /\ last'.op \in {"is", "as", "as_variant", "clone", "trace",
                         "finalize"})
       => /\ BagIn(last'.w, boxes)
          /\ BagIn(last'.w, boxes')
          /\ last'.op # "clone" => boxes' = boxes
          /\ last'.op = "clone" =>
                 /\ last'.out = last'.w
                 /\ boxes' = boxes (+) SetToBag({last'.w})
          /\ \A k \in Kinds : is_kind(k, last'.w) =>
                 \E x \in BagToSet(boxes') : x = last'.w /\ is_kind(k, x)
      ]_vars

\* The variant of an object was taken and dropped, which released the
\* allocation; the value has the bits it had
C28_Witness ==
    /\ last.op = "as_variant"
    /\ last.kind = "object"
    /\ BagIn(last.w, boxes)
    /\ as_object(last.w) = Some(last.addr)
    /\ last.rc0 = 1
    /\ RcAt(heap, last.addr) = 0

\* C29: for a value of kind object, the reference count of its allocation
\* after trace(mark), after finalize() and after the result of as_variant()
\* has been dropped is the count from before the call
C29_HooksReferenceNeutral ==
    (/\ last.op \in {"trace", "finalize", "as_variant"}
     /\ last.kind = "object"
     /\ ~ub)
    => RcAt(heap, last.addr) = last.rc0

\* C30: a slice starts with a count of 1 and one reference to its parent,
\* taken by a clone; its count is 1 plus the clones minus the drops; it is
\* released, and with it its reference to the parent, when the count
\* reaches 0, not before and not twice; the parent is not released while
\* the slice is live
C30_SliceLifecycle ==
    str.kind = "slice" =>
        /\ str.op = "new" =>
               /\ str.refcount = One64
               /\ str.state = "live"
        /\ (~str.forgot /\ str.state # "aborted") =>
               /\ 1 + str.clones - str.drops >= 0
               /\ str.refcount = <<0, 0, 0, 1 + str.clones - str.drops>>
               /\ str.handles = 1 + str.clones - str.drops
        /\ (str.state = "freed") <=> (str.refcount = Zero64)
        /\ str.deallocs = IF str.state = "freed" THEN 1 ELSE 0
        /\ str.state \in {"live", "aborted"} =>
               /\ parent.refcount = parent.handles + 1
               /\ parent.deallocs = 0
        /\ str.state = "freed" =>
               /\ parent.refcount = parent.handles
               /\ parent.deallocs = IF parent.handles = 0 THEN 1 ELSE 0

\* A slice cloned once and dropped once is live, and it alone keeps its
\* parent, whose own handle is gone
C30_Witness ==
    /\ str.kind = "slice"
    /\ str.state = "live"
    /\ str.clones = 1
    /\ str.drops = 1
    /\ str.refcount = One64
    /\ parent.handles = 0
    /\ parent.refcount = 1
    /\ parent.deallocs = 0

====
